---- MODULE Spec2Model ----
(***************************************************************************)
(* Round-driven block production and notarization of the 0chain miner:     *)
(* the round object (round package), the miner's ticket processing and     *)
(* block collector (miner/protocol_round.go), and the VRF beacon           *)
(* (miner/protocol_bls.go).                                                *)
(***************************************************************************)
EXTENDS Integers, Sequences, FiniteSets, TLC

VARIABLES
    rounds,      \* round number -> round object (the chain's round map)
    blk,         \* block object -> its fields (the heap of *block.Block)
    ret,         \* the last call of a round operation and what it returned
    log,         \* calls made to collaborators, in order
    vctx,        \* round number -> state of the round's verification context
    LatestFinalizedBlock,
    CurrentRound,
    IsDkgEnabled,   \* config.DevConfiguration.IsDkgEnabled
    bproc,       \* party -> the miner's AddVRFShare call handling its share
    Blocks,      \* the chain's block cache: hash -> block object
    Self,        \* node.Self: this miner
    chan,        \* round 1's channel of blocks to verify
    coll,        \* the local state of round 1's collector goroutine
    gen,         \* the local state of round 1's GenerateRoundBlock call
    TransactionCount,   \* transaction.TransactionCount
    fbf,         \* the finalized-block fetcher: its channels, worker and clock
    rcalls       \* calls of round methods in progress, and the round's mutex

vars == <<rounds, blk, ret, log, vctx, LatestFinalizedBlock, CurrentRound,
          IsDkgEnabled, bproc, Blocks, Self, chan, coll, gen, TransactionCount,
          fbf, rcalls>>

beaconVars == <<IsDkgEnabled, bproc>>

genVars == <<gen, TransactionCount>>

nodeVars == <<Self, fbf, rcalls, genVars>>

collVars == <<Blocks, nodeVars, chan, coll>>

chainVars == <<vctx, LatestFinalizedBlock, CurrentRound, beaconVars, collVars>>

----------------------------------------------------------------------------
(* Bounds of the model *)

NumHashes == 3      \* distinct block hashes of a round
MaxRank == 1        \* ranks are 0..MaxRank
MaxWeight == 2      \* chain weights are 1..MaxWeight
NumMiners == 3      \* committee size
T == 2              \* threshold of tickets / VRF shares

(* round state constants *)
RoundShareVRF == 0
RoundVRFComplete == 1
RoundGenerating == 2
RoundGenerated == 3
RoundCollectingBlockProposals == 4
RoundStateVerificationTimedOut == 5
RoundStateFinalizing == 6
RoundStateFinalized == 7

Hashes == 1..NumHashes
Ranks == 0..MaxRank
Weights == 1..MaxWeight
Miners == 1..NumMiners

(* Block objects: one object per hash, and a second object carrying hash 1 *)
(* (the same block deserialized twice).                                    *)
Objs == 1..(NumHashes + 1)
HashOf(o) == IF o > NumHashes THEN 1 ELSE o
(* The rank and the chain weight of a block are fixed by its content: the  *)
(* table gives blocks of equal rank and different weight, of equal weight  *)
(* and different rank, and of equal rank and weight.                       *)
RankOf(h) == h % (MaxRank + 1)
WeightOf(h) == 1 + ((h \div 2) % MaxWeight)
Nil == 0

NumFetchHashes == 2     \* hashes of finalized blocks asked for
FetchHashes == 1..NumFetchHashes
NoTime == -1            \* no entry of the hash in the fetching map
NoHash == 0

Range(s) == {s[i] : i \in DOMAIN s}

----------------------------------------------------------------------------
(* round.Round *)

NoShare == [party |-> 0, tc |-> -1, share |-> 0]

Provider(n) ==
    [Number |-> n, RandomSeed |-> 0, hasRandomSeed |-> FALSE,
     Block |-> Nil, BlockHash |-> NoHash, VRFOutput |-> 0,
     minerPerm |-> <<>>, state |-> RoundShareVRF,
     proposedBlocks |-> <<>>, notarizedBlocks |-> <<>>,
     shares |-> [p \in Miners |-> NoShare],
     softTimeoutCount |-> 0,
     count |-> 0, timeoutVotes |-> [k \in {} |-> 0], votersVoted |-> {}]

getState(r) == r.state

setState(r, state) ==
    IF state > getState(r) THEN [r EXCEPT !.state = state] ELSE r

ResetState(r, state) == [r EXCEPT !.state = state]

(* a test of the state that never finds the round finalizing *)
neverFinalizing(r) == FALSE

isFinalizing(r) == getState(r) = RoundStateFinalizing

isFinalized(r) == getState(r) = RoundStateFinalized \/ r.Number = 0

(* sort.SliceStable by RoundRank ascending *)
RECURSIVE GetBlocksByRank(_, _)
GetBlocksByRank(blocks, bs) ==
    IF Len(blocks) <= 1 THEN blocks
    ELSE LET rest == GetBlocksByRank(SubSeq(blocks, 1, Len(blocks) - 1), bs)
             x == blocks[Len(blocks)]
             k == Cardinality({i \in DOMAIN rest :
                                 bs[rest[i]].RoundRank <= bs[x].RoundRank})
         IN  SubSeq(rest, 1, k) \o <<x>> \o SubSeq(rest, k + 1, Len(rest))

(* sort.Slice by ChainWeight descending: not stable, so any order of the   *)
(* same blocks with non-increasing weights can come out.                   *)
SortByWeight(s, bs) ==
    {q \in [DOMAIN s -> Range(s)] :
        /\ Range(q) = Range(s)
        /\ \A i \in DOMAIN q : \A j \in DOMAIN q :
              i < j => bs[q[i]].ChainWeight >= bs[q[j]].ChainWeight}

appendProposedBlock(r, bs, b) ==
    [r |-> [r EXCEPT !.proposedBlocks =
                GetBlocksByRank(Append(r.proposedBlocks, b), bs)],
     b |-> b, new |-> TRUE]

(* addProposedBlock: the stored block of that hash, or b appended and the  *)
(* list sorted by rank.                                                    *)
addProposedBlock(r, bs, b) ==
    IF \E i \in DOMAIN r.proposedBlocks : bs[r.proposedBlocks[i]].Hash = bs[b].Hash
    THEN LET i == CHOOSE i \in DOMAIN r.proposedBlocks :
                      bs[r.proposedBlocks[i]].Hash = bs[b].Hash
         IN  [r |-> r, b |-> r.proposedBlocks[i], new |-> FALSE]
    ELSE [r |-> [r EXCEPT !.proposedBlocks =
                     GetBlocksByRank(Append(r.proposedBlocks, b), bs)],
          b |-> b, new |-> TRUE]

MergeVerificationTickets(bs, into, tickets) ==
    [bs EXCEPT ![into].tickets = bs[into].tickets \cup tickets]

SetBlockNotarized(bs, b) == [bs EXCEPT ![b].notarized = TRUE]

RemoveAt(s, i) == SubSeq(s, 1, i - 1) \o SubSeq(s, i + 1, Len(s))

KeepSameRank(nb, bs, b) == 0

(* The same-rank scan of AddNotarizedBlock: the last index holding a block *)
(* of b's rank, 0 when there is none.                                      *)
FoundSameRank(nb, bs, b) ==
    LET same == {i \in DOMAIN nb : bs[nb[i]].RoundRank = bs[b].RoundRank}
    IN  IF same = {} THEN 0 ELSE CHOOSE i \in same : \A j \in same : j <= i

(* Round.AddNotarizedBlock: the set of outcomes [r, bs, b, new] *)
AddNotarizedBlockOutcomes(r0, bs0, b0) ==
    LET pb == addProposedBlock(r0, bs0, b0)
        r == pb.r
        b == pb.b
        nb == r.notarizedBlocks
        sameHash == {i \in DOMAIN nb : bs0[nb[i]].Hash = bs0[b].Hash}
    IN  IF sameHash # {}
        THEN LET i == CHOOSE i \in sameHash : TRUE
                 stored == nb[i]
             IN  {[r |-> r,
                   bs |-> IF stored # b
                          THEN MergeVerificationTickets(bs0, stored, bs0[b].tickets)
                          ELSE bs0,
                   b |-> stored, new |-> FALSE]}
        ELSE LET found == FoundSameRank(nb, bs0, b)
                 kept == IF found > 0 THEN RemoveAt(nb, found) ELSE nb
                 bs == SetBlockNotarized(bs0, b)
                 best == IF r.Block = Nil \/ bs[r.Block].RoundRank > bs[b].RoundRank
                         THEN b ELSE r.Block
             IN  {[r |-> [r EXCEPT !.Block = best, !.notarizedBlocks = rnb],
                   bs |-> bs, b |-> b, new |-> TRUE] :
                      rnb \in SortByWeight(Append(kept, b), bs)}

(* Round.Finalize *)
Finalize(r, bs, b) ==
    [setState(r, RoundStateFinalized) EXCEPT !.Block = b, !.BlockHash = bs[b].Hash]

(* Round.SetFinalizing: [r, ok] *)
SetFinalizing(r) ==
    IF isFinalized(r) \/ isFinalizing(r)
    THEN [r |-> r, ok |-> FALSE]
    ELSE [r |-> setState(r, RoundStateFinalizing), ok |-> TRUE]

(* Round.initialize *)
initialize(r) ==
    [r EXCEPT !.notarizedBlocks = <<>>, !.proposedBlocks = <<>>,
              !.shares = [p \in Miners |-> NoShare],
              !.hasRandomSeed = FALSE, !.RandomSeed = 0]

KeepSoftTimeoutCount(r) == r

(* Round.resetSoftTimeoutCount *)
resetSoftTimeoutCount(r) == [r EXCEPT !.softTimeoutCount = 0]

(* Round.Restart *)
Restart(r) ==
    ResetState(resetSoftTimeoutCount([initialize(r) EXCEPT !.Block = Nil]),
               RoundShareVRF)

(* Round.AddAdditionalVRFShare: [r, ok] *)
ReplaceAdditionalVRFShare(r, share) ==
    [r |-> [setState(r, RoundShareVRF) EXCEPT !.shares[share.party] = share],
     ok |-> TRUE]

AddAdditionalVRFShare(r, share) ==
    IF r.shares[share.party] # NoShare
    THEN [r |-> r, ok |-> FALSE]
    ELSE [r |-> [setState(r, RoundShareVRF) EXCEPT !.shares[share.party] = share],
          ok |-> TRUE]

getVRFShares(r) == {p \in Miners : r.shares[p] # NoShare}

(* Round.AddVRFShare: [r, ok]; at the threshold it adds nothing and        *)
(* returns true.                                                           *)
AddVRFShare(r, share, threshold) ==
    IF Cardinality(getVRFShares(r)) >= threshold
    THEN [r |-> r, ok |-> TRUE]
    ELSE IF r.shares[share.party] # NoShare
    THEN [r |-> r, ok |-> FALSE]
    ELSE [r |-> [setState(r, RoundShareVRF) EXCEPT !.shares[share.party] = share],
          ok |-> TRUE]

----------------------------------------------------------------------------
(* Specification of one round object under calls of its block operations.  *)
(* Finalize is called as FinalizeRound calls it, after SetFinalizing.      *)

MinerOf(h) == 1 + RankOf(h)

NewBlock(h) ==
    [Hash |-> h, Round |-> 1, RoundRank |-> RankOf(h), ChainWeight |-> WeightOf(h),
     MinerID |-> MinerOf(h), PrevHash |-> NumHashes + 1, PrevBlock |-> Nil,
     MagicBlockHash |-> NumHashes + 1, verifies |-> TRUE,
     tickets |-> {}, notarized |-> FALSE]

NoRet == [op |-> "none", arg |-> 0, ok |-> FALSE]

IdleCall == [pc |-> "idle", share |-> NoShare, from |-> {}]

NoGenerator ==
    [pc |-> "idle", b |-> Nil, txnCount |-> 0, delay |-> 0, delays |-> <<>>,
     sleeps |-> 0, err |-> "none"]

NumCallers == 2     \* goroutines calling methods of one round
Callers == 1..NumCallers

NoCall == [op |-> "none", n |-> 0, pc |-> "idle", arg |-> 0]

(* no call in progress, the round's mutex free *)
NoCalls == [proc |-> [p \in Callers |-> NoCall], mutex |-> 0]

(* NewFinalizedBlockFetcher and the locals of the worker at its start *)
NoFetcher ==
    [add |-> <<>>, got |-> <<>>, fetching |-> [h \in FetchHashes |-> NoTime],
     tick |-> FALSE, now |-> 0, stopped |-> FALSE,
     running |-> [h \in FetchHashes |-> 0],
     spawned |-> [h \in FetchHashes |-> 0],
     requests |-> 0, finalizedBlocks |-> <<>>]

NoCollector ==
    [pc |-> "none", timer |-> "none", sendVerification |-> FALSE,
     blocks |-> <<>>, arrived |-> <<>>, i |-> 0,
     collectors |-> 0, timerEvents |-> 0]

InitRound ==
    /\ rounds = (1 :> Provider(1))
    /\ blk = [o \in Objs |-> NewBlock(HashOf(o))]
    /\ ret = NoRet
    /\ log = <<>>
    /\ vctx = (1 :> "none")
    /\ LatestFinalizedBlock = Nil
    /\ CurrentRound = 0
    /\ IsDkgEnabled = TRUE
    /\ bproc = [p \in Miners |-> IdleCall]
    /\ Blocks = << >>
    /\ Self = NumMiners
    /\ gen = NoGenerator
    /\ fbf = NoFetcher
    /\ rcalls = NoCalls
    /\ TransactionCount = 0
    /\ chan = <<>>
    /\ coll = NoCollector

CallAddProposedBlock ==
    \E b \in Objs :
        LET o == addProposedBlock(rounds[1], blk, b)
        IN  /\ rounds' = [rounds EXCEPT ![1] = o.r]
            /\ ret' = [op |-> "AddProposedBlock", arg |-> b, ok |-> o.new]
            /\ UNCHANGED <<blk, log, chainVars>>

CallAddNotarizedBlock ==
    \E b \in Objs : \E o \in AddNotarizedBlockOutcomes(rounds[1], blk, b) :
        /\ rounds' = [rounds EXCEPT ![1] = o.r]
        /\ blk' = o.bs
        /\ ret' = [op |-> "AddNotarizedBlock", arg |-> b, ok |-> o.new]
        /\ UNCHANGED <<log, chainVars>>

CallSetFinalizing ==
    LET o == SetFinalizing(rounds[1])
    IN  /\ rounds' = [rounds EXCEPT ![1] = o.r]
        /\ ret' = [op |-> "SetFinalizing", arg |-> 0, ok |-> o.ok]
        /\ UNCHANGED <<blk, log, chainVars>>

CallFinalize ==
    \E b \in Objs :
        /\ isFinalizing(rounds[1])
        /\ rounds' = [rounds EXCEPT ![1] = Finalize(rounds[1], blk, b)]
        /\ ret' = [op |-> "Finalize", arg |-> b, ok |-> TRUE]
        /\ UNCHANGED <<blk, log, chainVars>>

CallRestart ==
    /\ rounds' = [rounds EXCEPT ![1] = Restart(rounds[1])]
    /\ ret' = [op |-> "Restart", arg |-> 0, ok |-> TRUE]
    /\ UNCHANGED <<blk, log, chainVars>>

NextRound ==
    \/ CallAddProposedBlock
    \/ CallAddNotarizedBlock
    \/ CallSetFinalizing
    \/ CallFinalize
    \/ CallRestart

SpecRound == InitRound /\ [][NextRound]_vars

----------------------------------------------------------------------------
(* Specification of one round object under calls of its VRF share          *)
(* operations.                                                             *)

MaxTC == 1          \* timeout counts are 0..MaxTC
NumShareValues == 2 \* distinct signature shares a party can send

VRFShares ==
    [party : Miners, tc : 0..MaxTC, share : 1..NumShareValues]

CallAddVRFShare ==
    \E share \in VRFShares :
        LET o == AddVRFShare(rounds[1], share, T)
        IN  /\ rounds' = [rounds EXCEPT ![1] = o.r]
            /\ ret' = [op |-> "AddVRFShare", arg |-> share.party, ok |-> o.ok]
            /\ UNCHANGED <<blk, log, chainVars>>

CallAddAdditionalVRFShare ==
    \E share \in VRFShares :
        LET o == AddAdditionalVRFShare(rounds[1], share)
        IN  /\ rounds' = [rounds EXCEPT ![1] = o.r]
            /\ ret' = [op |-> "AddAdditionalVRFShare", arg |-> share.party, ok |-> o.ok]
            /\ UNCHANGED <<blk, log, chainVars>>

NextShares ==
    \/ CallAddVRFShare
    \/ CallAddAdditionalVRFShare
    \/ CallRestart

SpecShares == InitRound /\ [][NextShares]_vars

----------------------------------------------------------------------------
(* miner.Chain: ticket processing *)

GenesisHash == NumHashes + 1
GenesisObj == NumHashes + 2

(* rand.New(rand.NewSource(seed)).Int63(): a fixed function of the seed *)
NumSeeds == 1       \* seeds the first round can be started with
SeedSpace == 5      \* values of the generator
Rand63(seed) == 1 + ((3 * seed + 1) % SeedSpace)

(* The state the chain operations work on, as one record *)
World ==
    [rounds |-> rounds, blk |-> blk, vctx |-> vctx, log |-> log,
     LatestFinalizedBlock |-> LatestFinalizedBlock, CurrentRound |-> CurrentRound,
     Blocks |-> Blocks]

SetWorld(w) ==
    /\ rounds' = w.rounds
    /\ blk' = w.blk
    /\ vctx' = w.vctx
    /\ log' = w.log
    /\ LatestFinalizedBlock' = w.LatestFinalizedBlock
    /\ CurrentRound' = w.CurrentRound
    /\ Blocks' = w.Blocks

Logged(w, op, n, arg) ==
    [w EXCEPT !.log = Append(@, [op |-> op, round |-> n, arg |-> arg])]

(* A block is notarized when it holds a quorum of tickets *)
IsBlockNotarized(bs, b) == Cardinality(bs[b].tickets) >= T

(* AddVerificationTicket: idempotent on the signer; [bs, ok] *)
AddVerificationTicket(bs, b, signer) ==
    [bs |-> [bs EXCEPT ![b].tickets = @ \cup {signer}],
     ok |-> signer \notin bs[b].tickets]

(* Round.CancelVerification: the round's verification context is done *)
CancelVerification(w, n) ==
    [w EXCEPT !.vctx[n] = IF @ = "active" THEN "cancelled" ELSE @]

CancelRoundVerification(w, n) == CancelVerification(w, n)

(* FinalizeRound: one-shot through SetFinalizing, then the round's best    *)
(* block becomes the round's finalized block and the latest finalized one. *)
FinalizeRound(w, n) ==
    LET sf == SetFinalizing(w.rounds[n])
    IN  IF ~sf.ok THEN w
        ELSE Logged([w EXCEPT !.rounds[n] = Finalize(sf.r, w.blk, sf.r.Block),
                              !.LatestFinalizedBlock = sf.r.Block],
                    "FinalizeRound", n, sf.r.Block)

(* CreateRound: the round enters the round map *)
CreateRound(w, nr) ==
    [w EXCEPT !.rounds = nr.Number :> nr @@ @,
              !.vctx = nr.Number :> "none" @@ @]

NotarizedAtAnyTicket(bs, b) == TRUE

(* ProcessVerifiedTicket line 215: has this ticket brought the block to    *)
(* notarization                                                            *)
NotarizedByTicket(bs, b) == IsBlockNotarized(bs, b)

NextRoundNotStarted(w, n) == w

(* ProcessVerifiedTicket lines 228-237: the next round *)
NextRoundOf(w, n) ==
    IF (n + 1) \in DOMAIN w.rounds THEN w
    ELSE LET nr == [Provider(n + 1) EXCEPT
                       !.RandomSeed = Rand63(w.rounds[n].RandomSeed)]
         IN  Logged(Logged(CreateRound(w, nr), "startNewRound", n + 1, 0),
                    "RoundStart", n + 1, nr.RandomSeed)

(* ProcessVerifiedTicket lines 238-241: the previous round *)
PrevRoundOf(w, n) ==
    IF (n - 1) \in DOMAIN w.rounds /\ w.rounds[n - 1].Block # Nil
    THEN FinalizeRound(w, n - 1)
    ELSE w

(* ProcessVerifiedTicket(r, b, vt) for the round n of b: the outcomes *)
ProcessVerifiedTicket(w, n, b, signer) ==
    LET notarized == IsBlockNotarized(w.blk, b)
        av == AddVerificationTicket(w.blk, b, signer)
        w0 == [w EXCEPT !.blk = av.bs]
    IN  IF ~av.ok THEN {w}
        ELSE IF notarized THEN {w0}
        ELSE IF ~NotarizedByTicket(av.bs, b) THEN {w0}
        ELSE LET w1 == CancelRoundVerification(
                           [w0 EXCEPT !.rounds[n].Block = b], n)
             IN  {PrevRoundOf(
                    NextRoundOf(
                      Logged([w1 EXCEPT !.rounds[n] = o.r, !.blk = o.bs],
                             "SendNotarization", n, b),
                      n),
                    n) : o \in AddNotarizedBlockOutcomes(w1.rounds[n], w1.blk, b)}

(* Chain.GenerateGenesisBlock: [gr, bs] *)
GenerateGenesisBlock(bs, gb) ==
    LET gr == [Provider(0) EXCEPT !.Block = gb]
        o == CHOOSE o \in AddNotarizedBlockOutcomes(gr, bs, gb) : TRUE
    IN  [gr |-> o.r, bs |-> o.bs]

----------------------------------------------------------------------------
(* Specification of the miner's chain under arriving tickets and notarized *)
(* blocks. Hashes 1 and 2 are blocks of round 1, the others of round 2.    *)

MaxTickets == 4     \* tickets stored over all blocks

RoundOf(h) == IF h > 2 THEN 2 ELSE 1

GenesisBlock ==
    [Hash |-> GenesisHash, Round |-> 0, RoundRank |-> 0, ChainWeight |-> 0,
     MinerID |-> 0, PrevHash |-> NoHash, PrevBlock |-> Nil,
     MagicBlockHash |-> NoHash, verifies |-> TRUE,
     tickets |-> {}, notarized |-> FALSE]

InitMiner ==
    /\ rounds = << >>
    /\ blk = [o \in Objs \cup {GenesisObj} |->
                IF o = GenesisObj THEN GenesisBlock
                ELSE [NewBlock(HashOf(o)) EXCEPT !.Round = RoundOf(HashOf(o))]]
    /\ ret = NoRet
    /\ log = <<>>
    /\ vctx = << >>
    /\ LatestFinalizedBlock = Nil
    /\ CurrentRound = 0
    /\ IsDkgEnabled = TRUE
    /\ bproc = [p \in Miners |-> IdleCall]
    /\ Blocks = << >>
    /\ Self = NumMiners
    /\ gen = NoGenerator
    /\ fbf = NoFetcher
    /\ rcalls = NoCalls
    /\ TransactionCount = 0
    /\ chan = <<>>
    /\ coll = NoCollector

(* Start-up: the genesis round and block, and round 1 started with a seed *)
SetupGenesis ==
    /\ DOMAIN rounds = {}
    /\ \E seed \in 1..NumSeeds :
        LET g == GenerateGenesisBlock(blk, GenesisObj)
            r1 == [Provider(1) EXCEPT !.RandomSeed = seed, !.hasRandomSeed = TRUE,
                                      !.state = RoundVRFComplete]
        IN  /\ rounds' = (0 :> g.gr @@ 1 :> r1)
            /\ blk' = g.bs
            /\ vctx' = (0 :> "none" @@ 1 :> "none")
            /\ LatestFinalizedBlock' = GenesisObj
            /\ CurrentRound' = 1
            /\ UNCHANGED <<ret, log, beaconVars, collVars>>

TicketsStored == {<<o, m>> \in (DOMAIN blk) \X Miners : m \in blk[o].tickets}

ReceiveTicket ==
    \E b \in Objs : \E signer \in Miners :
        /\ blk[b].Round \in DOMAIN rounds
        /\ Cardinality(TicketsStored) < MaxTickets
        /\ \E w \in ProcessVerifiedTicket(World, blk[b].Round, b, signer) :
              SetWorld(w)
        /\ UNCHANGED <<ret, beaconVars, nodeVars, chan, coll>>

(* A block arrives with a verified notarization (a quorum of tickets) and  *)
(* is handed to its round directly, as asyncFetchFinalizedBlock does.      *)
ReceiveNotarizedBlock ==
    \E b \in Objs : \E tickets \in SUBSET Miners :
        /\ blk[b].Round \in DOMAIN rounds
        /\ Cardinality(tickets) = T
        /\ Cardinality(TicketsStored) + T <= MaxTickets
        /\ LET bs == MergeVerificationTickets(blk, b, tickets)
           IN  \E o \in AddNotarizedBlockOutcomes(rounds[blk[b].Round], bs, b) :
                /\ rounds' = [rounds EXCEPT ![blk[b].Round] = o.r]
                /\ blk' = o.bs
        /\ UNCHANGED <<ret, log, chainVars>>

(* The goroutine of startNewRound: the chain moves to the started round *)
StartNewRound ==
    \E i \in DOMAIN log :
        /\ log[i].op = "startNewRound"
        /\ log[i].round > CurrentRound
        /\ CurrentRound' = log[i].round
        /\ UNCHANGED <<rounds, blk, ret, log, vctx, LatestFinalizedBlock, beaconVars,
                       collVars>>

NextMiner ==
    \/ SetupGenesis
    \/ ReceiveTicket
    \/ ReceiveNotarizedBlock
    \/ StartNewRound

SpecMiner == InitMiner /\ [][NextMiner]_vars

----------------------------------------------------------------------------
(* miner.Chain: the VRF beacon (protocol_bls.go) for round 1, whose        *)
(* previous round is round 0. Each party's share is handled by one call of *)
(* Chain.AddVRFShare; the calls of different parties run concurrently and  *)
(* interleave at their accesses to the round.                              *)

ValidShare == 1

(* Round.SetRandomSeed *)
SetRandomSeed(r, seed) ==
    IF r.hasRandomSeed THEN r
    ELSE [setState([r EXCEPT !.RandomSeed = seed], RoundVRFComplete)
             EXCEPT !.hasRandomSeed = TRUE, !.minerPerm = <<>>]

(* Round.SetRandomSeedForNotarizedBlock *)
SetRandomSeedForNotarizedBlock(r, seed) ==
    [r EXCEPT !.RandomSeed = seed, !.hasRandomSeed = TRUE, !.minerPerm = <<>>]

(* rand.New(rand.NewSource(seed)).Perm(n): a permutation fixed by the seed *)
Perm(seed, n) == [i \in 1..n |-> (i - 1 + seed) % n]

(* Round.ComputeMinerRanks *)
ComputeMinerRanks(r) == [r EXCEPT !.minerPerm = Perm(r.RandomSeed, NumMiners)]

addVoteOfAnyVoter(r, id, num) ==
    [r EXCEPT !.timeoutVotes =
                 IF num \in DOMAIN @ THEN [@ EXCEPT ![num] = @ + 1]
                 ELSE num :> 1 @@ @,
              !.votersVoted = @ \cup {id}]

(* timeoutCounter.addVote *)
addVote(r, id, num) ==
    IF id \in r.votersVoted THEN r
    ELSE [r EXCEPT !.timeoutVotes =
                      IF num \in DOMAIN @ THEN [@ EXCEPT ![num] = @ + 1]
                      ELSE num :> 1 @@ @,
                   !.votersVoted = @ \cup {id}]

AddTimeoutVote(r, num, id) == addVote(r, id, num)

GetTimeoutCount(r) == r.count

(* Round.IsVRFComplete: the round's state has reached VRF_COMPLETE *)
IsVRFComplete(r) == getState(r) >= RoundVRFComplete

NoMsg == [round |-> 0, tc |-> -1, prevRSeed |-> 0]

(* GetBlsMessageForRound: the message, or NoMsg when the previous round is *)
(* missing or has seed 0.                                                  *)
GetBlsMessageForRound(rs, n) ==
    IF (n - 1) \notin DOMAIN rs THEN NoMsg
    ELSE IF rs[n - 1].RandomSeed = 0 THEN NoMsg
    ELSE [round |-> n, tc |-> GetTimeoutCount(rs[n]), prevRSeed |-> rs[n - 1].RandomSeed]

(* a check that takes every share for a signature on the message *)
VerifyAnySignature(share, msg) == TRUE

(* currentDKG.VerifySignature: the share is a signature share of its party *)
(* on the message built from the sender's round, timeout count and         *)
(* previous seed.                                                          *)
VerifySignature(share, msg) ==
    /\ share.share = ValidShare
    /\ msg = [round |-> 1, tc |-> share.tc, prevRSeed |-> msg.prevRSeed]

(* encryption.Hash of the group signature, its first 16 hex digits as an   *)
(* integer: fixed by the message the shares sign.                          *)
SeedOfGroupSignature(msg) ==
    1 + ((7 * msg.prevRSeed + 3 * msg.tc + msg.round) % SeedSpace)

(* startRound: the seed is stored on the round, the ranks are computed and *)
(* the chain moves to the round.                                           *)
startRound(w, n, seed, from) ==
    Logged([w EXCEPT !.rounds[n] = ComputeMinerRanks(SetRandomSeed(@, seed)),
                     !.CurrentRound = IF n > @ THEN n ELSE @],
           "startRound", n, [seed |-> seed, from |-> from])

(* computeRoundRandomSeed: the seed handed to startRound, -1 when the      *)
(* round is let go.                                                        *)
computeRoundRandomSeed(rs, n, dkg) ==
    IF dkg THEN SeedOfGroupSignature(GetBlsMessageForRound(rs, n))
    ELSE IF (n - 1) \in DOMAIN rs
         THEN IF IsVRFComplete(rs[n - 1]) THEN Rand63(rs[n - 1].RandomSeed) ELSE 0
         ELSE -1

InitBeacon ==
    /\ \E seed \in 1..NumSeeds : \E st \in {RoundShareVRF, RoundVRFComplete} :
          rounds = (0 :> [Provider(0) EXCEPT !.RandomSeed = seed,
                                            !.hasRandomSeed = TRUE, !.state = st]
                    @@ 1 :> Provider(1))
    /\ blk = [o \in Objs |-> NewBlock(HashOf(o))]
    /\ ret = NoRet
    /\ log = <<>>
    /\ vctx = (0 :> "none" @@ 1 :> "none")
    /\ LatestFinalizedBlock = Nil
    /\ CurrentRound = 0
    /\ IsDkgEnabled \in BOOLEAN
    /\ bproc = [p \in Miners |-> IdleCall]
    /\ Blocks = << >>
    /\ Self = NumMiners
    /\ gen = NoGenerator
    /\ fbf = NoFetcher
    /\ rcalls = NoCalls
    /\ TransactionCount = 0
    /\ chan = <<>>
    /\ coll = NoCollector

beaconFrame ==
    UNCHANGED <<blk, ret, vctx, LatestFinalizedBlock, IsDkgEnabled, collVars>>

Goto(p, pc) == bproc' = [bproc EXCEPT ![p].pc = pc]

Return(p) == bproc' = [bproc EXCEPT ![p] = IdleCall]

(* AddVRFShare lines 213-275: the timeout vote, the message, the signature *)
(* check and the timeout count check.                                      *)
Admit ==
    \E p \in Miners : \E share \in VRFShares :
        /\ bproc[p].pc = "idle"
        /\ share.party = p
        /\ LET voted == AddTimeoutVote(rounds[1], share.tc, p)
               rs == [rounds EXCEPT ![1] = voted]
               msg == GetBlsMessageForRound(rs, 1)
           IN  /\ rounds' = rs
               /\ IF /\ msg # NoMsg
                     /\ VerifySignature(share, msg)
                     /\ share.tc = GetTimeoutCount(voted)
                  THEN bproc' = [bproc EXCEPT ![p] =
                                    [pc |-> "len", share |-> share, from |-> {}]]
                  ELSE Return(p)
        /\ UNCHANGED <<log, CurrentRound>>
        /\ beaconFrame

(* line 276 *)
CheckThreshold ==
    \E p \in Miners :
        /\ bproc[p].pc = "len"
        /\ IF Cardinality(getVRFShares(rounds[1])) >= T
           THEN Goto(p, "additional")
           ELSE Goto(p, "add")
        /\ UNCHANGED <<rounds, log, CurrentRound>>
        /\ beaconFrame

(* line 279 *)
DoAddAdditionalVRFShare ==
    \E p \in Miners :
        /\ bproc[p].pc = "additional"
        /\ rounds' = [rounds EXCEPT ![1] = AddAdditionalVRFShare(@, bproc[p].share).r]
        /\ Goto(p, "thr1")
        /\ UNCHANGED <<log, CurrentRound>>
        /\ beaconFrame

(* line 287 *)
DoAddVRFShare ==
    \E p \in Miners :
        /\ bproc[p].pc = "add"
        /\ LET o == AddVRFShare(rounds[1], bproc[p].share, T)
           IN  /\ rounds' = [rounds EXCEPT ![1] = o.r]
               /\ IF o.ok THEN Goto(p, "thr1") ELSE Return(p)
        /\ UNCHANGED <<log, CurrentRound>>
        /\ beaconFrame

(* ThresholdNumBLSSigReceived line 299 *)
ThresholdCheckComplete ==
    \E p \in Miners :
        /\ bproc[p].pc = "thr1"
        /\ IF IsVRFComplete(rounds[1]) THEN Return(p) ELSE Goto(p, "thr2")
        /\ UNCHANGED <<rounds, log, CurrentRound>>
        /\ beaconFrame

(* ThresholdNumBLSSigReceived lines 306-316 *)
ThresholdCountShares ==
    \E p \in Miners :
        /\ bproc[p].pc = "thr2"
        /\ IF Cardinality(getVRFShares(rounds[1])) >= T
           THEN IF IsDkgEnabled THEN Goto(p, "thr3") ELSE Goto(p, "rbo")
           ELSE Return(p)
        /\ UNCHANGED <<rounds, log, CurrentRound>>
        /\ beaconFrame

(* getVRFShareInfo and CalBlsGpSign, lines 317-331: the shares combined *)
getVRFShareInfo ==
    \E p \in Miners :
        /\ bproc[p].pc = "thr3"
        /\ bproc' = [bproc EXCEPT ![p].pc = "rbo",
                                  ![p].from = getVRFShares(rounds[1])]
        /\ UNCHANGED <<rounds, log, CurrentRound>>
        /\ beaconFrame

(* computeRBO line 343 *)
computeRBO ==
    \E p \in Miners :
        /\ bproc[p].pc = "rbo"
        /\ IF IsVRFComplete(rounds[1]) THEN Return(p) ELSE Goto(p, "seed")
        /\ UNCHANGED <<rounds, log, CurrentRound>>
        /\ beaconFrame

(* computeRBO line 348 to computeRoundRandomSeed line 403 *)
ComputeSeedAndStart ==
    \E p \in Miners :
        /\ bproc[p].pc = "seed"
        /\ LET seed == computeRoundRandomSeed(rounds, 1, IsDkgEnabled)
               w == IF seed = -1 THEN World
                    ELSE startRound(World, 1, seed, bproc[p].from)
           IN  /\ rounds' = w.rounds
               /\ log' = w.log
               /\ CurrentRound' = w.CurrentRound
        /\ Return(p)
        /\ beaconFrame

NextBeacon ==
    \/ Admit
    \/ CheckThreshold
    \/ DoAddAdditionalVRFShare
    \/ DoAddVRFShare
    \/ ThresholdCheckComplete
    \/ ThresholdCountShares
    \/ getVRFShareInfo
    \/ computeRBO
    \/ ComputeSeedAndStart

SpecBeacon == InitBeacon /\ [][NextBeacon]_vars

(* The beacon of round 1 on a node whose previous round may be missing or  *)
(* may have no seed yet (seed 0).                                          *)
InitAdmission ==
    /\ \E seed \in 0..NumSeeds : \E present \in BOOLEAN :
          rounds = IF present
                   THEN (0 :> [Provider(0) EXCEPT !.RandomSeed = seed,
                                                  !.hasRandomSeed = seed # 0,
                                                  !.state = IF seed # 0
                                                            THEN RoundVRFComplete
                                                            ELSE RoundShareVRF]
                         @@ 1 :> Provider(1))
                   ELSE (1 :> Provider(1))
    /\ blk = [o \in Objs |-> NewBlock(HashOf(o))]
    /\ ret = NoRet
    /\ log = <<>>
    /\ vctx = (0 :> "none" @@ 1 :> "none")
    /\ LatestFinalizedBlock = Nil
    /\ CurrentRound = 0
    /\ IsDkgEnabled = TRUE
    /\ bproc = [p \in Miners |-> IdleCall]
    /\ Blocks = << >>
    /\ Self = NumMiners
    /\ gen = NoGenerator
    /\ fbf = NoFetcher
    /\ rcalls = NoCalls
    /\ TransactionCount = 0
    /\ chan = <<>>
    /\ coll = NoCollector

SpecAdmission == InitAdmission /\ [][NextBeacon]_vars

----------------------------------------------------------------------------
(* miner.Chain: the collector of round 1 (CollectBlocksForVerification)    *)

MissingHash == NumHashes + 2

MaxPeerTickets == 2     \* tickets of other miners that arrive in a run

(* AddBlock that stores the object also over a cached one of the same hash *)
AddBlockReplacing(w, b) ==
    IF w.blk[b].Round <= w.blk[w.LatestFinalizedBlock].Round THEN w
    ELSE [w EXCEPT !.Blocks = w.blk[b].Hash :> b @@ @,
                   !.blk[b].PrevBlock =
                       IF @ = Nil /\ w.blk[b].PrevHash \in DOMAIN w.Blocks
                       THEN w.Blocks[w.blk[b].PrevHash] ELSE @]

(* Chain.AddBlock *)
AddBlock(w, b) ==
    IF w.blk[b].Round <= w.blk[w.LatestFinalizedBlock].Round THEN w
    ELSE IF w.blk[b].Hash \in DOMAIN w.Blocks THEN w
    ELSE [w EXCEPT !.Blocks = w.blk[b].Hash :> b @@ @,
                   !.blk[b].PrevBlock =
                       IF @ = Nil /\ w.blk[b].PrevHash \in DOMAIN w.Blocks
                       THEN w.Blocks[w.blk[b].PrevHash] ELSE @]

(* Chain.ValidateMagicBlock; the genesis block is the current magic block *)
ValidateMagicBlock(w, b) == w.blk[b].MagicBlockHash = GenesisHash

(* VerifyRoundBlock: [w, err]; the parent found in the cache is linked     *)
(* before the notarization of the parent and the block are checked.        *)
VerifyRoundBlock(w, n, b, self) ==
    IF w.CurrentRound # n THEN [w |-> w, err |-> "round_mismatch"]
    ELSE IF w.blk[b].MinerID = self THEN [w |-> w, err |-> "none"]
    ELSE IF w.blk[b].PrevBlock = Nil /\ w.blk[b].PrevHash \notin DOMAIN w.Blocks
    THEN [w |-> w, err |-> "prev_block_error"]
    ELSE LET w1 == IF w.blk[b].PrevBlock = Nil
                   THEN [w EXCEPT !.blk[b].PrevBlock = w.Blocks[w.blk[b].PrevHash]]
                   ELSE w
         IN  [w |-> w1, err |-> IF w.blk[b].verifies THEN "none" ELSE "invalid"]

(* verifyAndSend: the outcomes [w, ok] *)
verifyAndSend(w, n, b, self, from) ==
    LET v == VerifyRoundBlock(w, n, b, self)
    IN  IF v.err # "none"
        THEN {[w |-> Logged(v.w, "verify", n,
                            [b |-> b, ok |-> FALSE, from |-> from, err |-> v.err]),
               ok |-> FALSE]}
        ELSE LET w1 == Logged([v.w EXCEPT !.rounds[n].Block = b],
                              "verify", n,
                              [b |-> b, ok |-> TRUE, from |-> from, err |-> v.err])
                 w2 == IF w.blk[b].MinerID # self
                       THEN Logged(w1, "SendVerificationTicket", n, b)
                       ELSE w1
             IN  {[w |-> o, ok |-> TRUE] : o \in ProcessVerifiedTicket(w2, n, b, self)}

(* Round.StartVerificationBlockCollection: a context for the first caller *)
StartVerificationBlockCollection(w, n) == w.vctx[n] = "none"

VerifyBeforeTimer(sendVerification, best, bs, b) ==
    best = Nil \/ bs[b].RoundRank < bs[best].RoundRank

VerifyIfNotWorse(sendVerification, best, bs, b) ==
    sendVerification /\ (best = Nil \/ bs[b].RoundRank <= bs[best].RoundRank)

(* CollectBlocksForVerification lines 160-162: is the arriving block       *)
(* verified at once                                                        *)
VerifyOnArrival(sendVerification, best, bs, b) ==
    sendVerification /\ (best = Nil \/ bs[b].RoundRank < bs[best].RoundRank)

KeepArrivalOrder(blocks, bs) == blocks

(* CollectBlocksForVerification line 151 *)
SortBuffer(blocks, bs) == GetBlocksByRank(blocks, bs)

(* CollectBlocksForVerification lines 154-158: is the loop over the        *)
(* buffer over after the attempt on entry i of n                           *)
LoopDone(ok, i, n) == ok \/ i >= n

(* Start-up of the collector specification: genesis, round 1 started and   *)
(* current. Which blocks fail their verification (those of odd hash for    *)
(* want of their parent, the others in VerifyBlock), and which miner this  *)
(* node is, are fixed by the run; this node is the maker of block 2 or a   *)
(* miner that made no block.                                               *)
InitCollector ==
    /\ \E vf \in [{h \in Hashes : RoundOf(h) = 1} -> BOOLEAN] :
        LET seed == 1
            st(h) == IF RoundOf(h) # 1 \/ vf[h] THEN "ok"
                     ELSE IF h % 2 = 1 THEN "orphan" ELSE "invalid"
            bs == [o \in Objs \cup {GenesisObj} |->
                     IF o = GenesisObj THEN GenesisBlock
                     ELSE [NewBlock(HashOf(o)) EXCEPT
                              !.Round = RoundOf(HashOf(o)),
                              !.verifies = st(HashOf(o)) # "invalid",
                              !.PrevHash = IF st(HashOf(o)) = "orphan"
                                           THEN MissingHash ELSE GenesisHash]]
            g == GenerateGenesisBlock(bs, GenesisObj)
            r1 == [Provider(1) EXCEPT !.RandomSeed = seed, !.hasRandomSeed = TRUE,
                                      !.state = RoundVRFComplete]
        IN  /\ rounds = (0 :> g.gr @@ 1 :> r1)
            /\ blk = g.bs
    /\ Self \in {MinerOf(2), NumMiners}
    /\ gen = NoGenerator
    /\ fbf = NoFetcher
    /\ rcalls = NoCalls
    /\ TransactionCount = 0
    /\ Blocks = (GenesisHash :> GenesisObj)
    /\ vctx = (0 :> "none" @@ 1 :> "none")
    /\ LatestFinalizedBlock = GenesisObj
    /\ CurrentRound = 1
    /\ ret = NoRet
    /\ log = <<>>
    /\ IsDkgEnabled = TRUE
    /\ bproc = [p \in Miners |-> IdleCall]
    /\ chan = <<>>
    /\ coll = NoCollector

Submitted ==
    Range(chan) \cup Range(coll.blocks) \cup Range(coll.arrived)
    \cup {log[i].arg.b : i \in {j \in DOMAIN log : log[j].op \in {"verify", "recv"}}}

(* AddToRoundVerification(ctx, mr, b) for round 1; each block object is    *)
(* put up once.                                                            *)
AddToRoundVerification ==
    \E b \in Objs :
        /\ b \notin Submitted
        /\ blk[b].Round = 1
        /\ ~(isFinalizing(rounds[1]) \/ isFinalized(rounds[1]))
        /\ ValidateMagicBlock(World, b)
        /\ LET w == AddBlock(World, b)
           IN  /\ blk' = w.blk
               /\ Blocks' = w.Blocks
               /\ IF StartVerificationBlockCollection(w, 1)
                  THEN /\ vctx' = [vctx EXCEPT ![1] = "active"]
                       /\ coll' = [NoCollector EXCEPT
                                      !.pc = "select", !.timer = "running",
                                      !.collectors = coll.collectors + 1,
                                      !.timerEvents = coll.timerEvents]
                  ELSE UNCHANGED <<vctx, coll>>
        /\ chan' = Append(chan, b)
        /\ UNCHANGED <<rounds, ret, log, LatestFinalizedBlock, CurrentRound,
                       beaconVars, nodeVars>>

(* a collector that returns whether or not its context is done *)
ctxDoneOrNot(v, n) == TRUE

(* CollectBlocksForVerification line 146: <-ctx.Done() is ready *)
ctxDone(v, n) == v[n] = "cancelled"

(* select: <-ctx.Done() *)
CollectorDone ==
    /\ coll.pc = "select"
    /\ ctxDone(vctx, 1)
    /\ coll' = [coll EXCEPT !.pc = "done"]
    /\ UNCHANGED <<rounds, blk, ret, log, vctx, LatestFinalizedBlock, CurrentRound,
                   beaconVars, Blocks, nodeVars, chan>>

TimerRearmed == "running"

(* time.NewTimer(BLOCK_TIME), line 124: the timer sends on its channel     *)
(* once.                                                                   *)
TimerAfterEvent == "fired"

(* select: <-blockTimeTimer.C, lines 148-151; the loop over the buffer     *)
(* follows, one attempt a step.                                            *)
BlockTimeTimer ==
    /\ coll.pc = "select"
    /\ coll.timer = "running"
    /\ LET sorted == SortBuffer(coll.blocks, blk)
       IN  coll' = [coll EXCEPT !.timer = TimerAfterEvent,
                                !.timerEvents = @ + 1,
                                !.sendVerification = TRUE,
                                !.arrived = coll.blocks, !.blocks = sorted,
                                !.i = 0,
                                !.pc = IF Len(sorted) = 0 THEN "select" ELSE "loop"]
    /\ UNCHANGED <<rounds, blk, ret, log, vctx, LatestFinalizedBlock, CurrentRound,
                   beaconVars, Blocks, nodeVars, chan>>

(* lines 154-158: one turn of the loop over the sorted buffer *)
VerifyBuffered ==
    /\ coll.pc = "loop"
    /\ \E o \in verifyAndSend(World, 1, coll.blocks[coll.i + 1], Self, "timer") :
        /\ SetWorld(o.w)
        /\ coll' = [coll EXCEPT !.i = @ + 1,
                                !.pc = IF LoopDone(o.ok, coll.i + 1, Len(coll.blocks))
                                       THEN "select" ELSE "loop"]
    /\ UNCHANGED <<ret, beaconVars, nodeVars, chan>>

(* select: b := <-r.GetBlocksToVerifyChannel(), lines 159-167 *)
ReceiveBlock ==
    /\ coll.pc = "select"
    /\ Len(chan) > 0
    /\ LET b == Head(chan)
           w == Logged(World, "recv", 1, [b |-> b, best |-> rounds[1].Block])
       IN  IF VerifyOnArrival(coll.sendVerification, rounds[1].Block, blk, b)
           THEN /\ \E o \in verifyAndSend(w, 1, b, Self, "chan") : SetWorld(o.w)
                /\ UNCHANGED coll
           ELSE IF coll.sendVerification
           THEN /\ SetWorld(w)
                /\ UNCHANGED coll
           ELSE /\ coll' = [coll EXCEPT !.blocks = Append(@, b)]
                /\ UNCHANGED <<rounds, blk, vctx, LatestFinalizedBlock, CurrentRound,
                               Blocks, log>>
    /\ chan' = Tail(chan)
    /\ UNCHANGED <<ret, beaconVars, nodeVars>>

(* A ticket of another miner arrives for a block of round 1 that is in    *)
(* the chain's cache                                                       *)
ReceivePeerTicket ==
    \E b \in Objs : \E signer \in Miners \ {Self} :
        /\ blk[b].Round = 1
        /\ blk[b].Hash \in DOMAIN Blocks
        /\ Blocks[blk[b].Hash] = b
        /\ Cardinality({t \in TicketsStored : t[2] # Self}) < MaxPeerTickets
        /\ \E w \in ProcessVerifiedTicket(World, blk[b].Round, b, signer) :
              SetWorld(w)
        /\ UNCHANGED <<ret, beaconVars, nodeVars, chan, coll>>

NextCollector ==
    \/ AddToRoundVerification
    \/ CollectorDone
    \/ BlockTimeTimer
    \/ VerifyBuffered
    \/ ReceiveBlock
    \/ ReceivePeerTicket
    \/ StartNewRound

SpecCollector == InitCollector /\ [][NextCollector]_vars

(* The collector goroutine is scheduled: a turn of its loop over the       *)
(* buffer that can be taken is taken, and a select in which ctx.Done() is  *)
(* ready for good takes that case in the end.                              *)
SpecCollectorFair ==
    SpecCollector /\ WF_vars(VerifyBuffered) /\ WF_vars(CollectorDone)

----------------------------------------------------------------------------
(* miner.Chain.GenerateRoundBlock for round 1, run by the miner that makes *)
(* block 2, with the collector that verifies the block it puts up.         *)

MaxTxns == 2            \* transactions that arrive in a run
MaxSleeps == 5          \* backoff sleeps in a run
MaxRoundsAhead == 1     \* rounds the chain moves on past round 1

(* delay := 128 * time.Millisecond, in ms *)
InitialDelay == 128

(* time.Second, in ms *)
MaxDelay == 1000

NextDelayUncapped(delay) == 2 * delay

(* GenerateRoundBlock lines 80-83: the delay of the next sleep *)
NextDelay(delay) == IF 2 * delay > MaxDelay THEN MaxDelay ELSE 2 * delay

(* GetBlockToExtend: the first notarized block of the round, if any *)
GetBlockToExtend(r) ==
    IF Len(r.notarizedBlocks) > 0 THEN r.notarizedBlocks[1] ELSE Nil

(* block.SetPreviousBlock: the block extends pb, in the round after pb's *)
SetPreviousBlock(bs, b, pb) ==
    [bs EXCEPT ![b].PrevBlock = pb, ![b].PrevHash = bs[pb].Hash,
               ![b].Round = bs[pb].Round + 1]

(* Chain.GenerateBlock: the block is filled, or the pool has too few       *)
(* transactions, or generation fails otherwise.                           *)
GenerateBlockOutcomes == {"ok", "insufficient_txns", "error"}

GenReturn(err) == gen' = [gen EXCEPT !.pc = "done", !.err = err]

RoundNeverPassed == FALSE

(* mc.CurrentRound > b.Round, lines 61, 76 and 94 *)
RoundPassed == CurrentRound > blk[gen.b].Round

(* The generator's own block is fresh: no parent yet, this node's id *)
InitGenerator ==
    /\ InitCollector
    /\ Self = MinerOf(2)
    /\ \A o \in Objs : blk[o].verifies /\ blk[o].PrevHash = GenesisHash

(* GenerateRoundBlock lines 41-59: the block to extend and the new block *)
GenStart ==
    /\ gen.pc = "idle"
    /\ LET pb == IF 0 \in DOMAIN rounds THEN GetBlockToExtend(rounds[0]) ELSE Nil
       IN  IF 0 \notin DOMAIN rounds
           THEN /\ gen' = [gen EXCEPT !.pc = "done", !.err = "invalid_round"]
                /\ UNCHANGED blk
           ELSE IF pb = Nil
           THEN /\ gen' = [gen EXCEPT !.pc = "done",
                                      !.err = "block_gen_no_block_to_extend"]
                /\ UNCHANGED blk
           ELSE /\ gen' = [gen EXCEPT !.pc = "top", !.b = 2]
                /\ blk' = SetPreviousBlock(
                              [blk EXCEPT ![2].MagicBlockHash = GenesisHash], 2, pb)
    /\ UNCHANGED <<rounds, ret, log, vctx, LatestFinalizedBlock, CurrentRound,
                   beaconVars, Blocks, Self, fbf, rcalls, chan, coll, TransactionCount>>

(* lines 60-65: the check before a generation attempt *)
GenCheck ==
    /\ gen.pc = "top"
    /\ IF RoundPassed THEN GenReturn("round_mismatch")
       ELSE gen' = [gen EXCEPT !.pc = "attempt", !.txnCount = TransactionCount]
    /\ UNCHANGED <<rounds, blk, ret, log, vctx, LatestFinalizedBlock, CurrentRound,
                   beaconVars, Blocks, Self, fbf, rcalls, chan, coll, TransactionCount>>

(* lines 66-71 and 86-92: the generation attempt *)
GenAttempt ==
    /\ gen.pc = "attempt"
    /\ \E out \in GenerateBlockOutcomes :
          IF out = "ok" THEN gen' = [gen EXCEPT !.pc = "publish"]
          ELSE IF out = "insufficient_txns"
          THEN gen' = [gen EXCEPT !.pc = "wait", !.delay = InitialDelay,
                                  !.delays = <<>>]
          ELSE GenReturn(out)
    /\ UNCHANGED <<rounds, blk, ret, log, vctx, LatestFinalizedBlock, CurrentRound,
                   beaconVars, Blocks, Self, fbf, rcalls, chan, coll, TransactionCount>>

(* lines 72-84: one turn of the backoff loop *)
GenWait ==
    /\ gen.pc = "wait"
    /\ IF gen.txnCount # TransactionCount THEN gen' = [gen EXCEPT !.pc = "top"]
       ELSE IF RoundPassed THEN GenReturn("round_mismatch")
       ELSE /\ gen.sleeps < MaxSleeps
            /\ gen' = [gen EXCEPT !.delays = Append(@, gen.delay),
                                  !.delay = NextDelay(gen.delay),
                                  !.sleeps = @ + 1]
    /\ UNCHANGED <<rounds, blk, ret, log, vctx, LatestFinalizedBlock, CurrentRound,
                   beaconVars, Blocks, Self, fbf, rcalls, chan, coll, TransactionCount>>

(* lines 94-101: the last check, then AddBlock, AddToRoundVerification and *)
(* SendBlock                                                               *)
GenPublish ==
    /\ gen.pc = "publish"
    /\ IF RoundPassed
       THEN /\ GenReturn("round_mismatch")
            /\ UNCHANGED <<blk, Blocks, log, vctx, chan, coll>>
       ELSE LET b == gen.b
                w == AddBlock(World, b)
                put == /\ ~(isFinalizing(rounds[1]) \/ isFinalized(rounds[1]))
                       /\ ValidateMagicBlock(w, b)
            IN  /\ GenReturn("none")
                /\ blk' = w.blk
                /\ Blocks' = w.Blocks
                /\ log' = Append(log, [op |-> "SendBlock", round |-> 1, arg |-> b])
                /\ IF put /\ StartVerificationBlockCollection(w, 1)
                   THEN /\ vctx' = [vctx EXCEPT ![1] = "active"]
                        /\ coll' = [NoCollector EXCEPT
                                       !.pc = "select", !.timer = "running",
                                       !.collectors = coll.collectors + 1,
                                       !.timerEvents = coll.timerEvents]
                   ELSE UNCHANGED <<vctx, coll>>
                /\ chan' = IF put THEN Append(chan, b) ELSE chan
    /\ UNCHANGED <<rounds, ret, LatestFinalizedBlock, CurrentRound,
                   beaconVars, Self, fbf, rcalls, TransactionCount>>

(* A transaction enters the pool *)
TxnArrives ==
    /\ TransactionCount < MaxTxns
    /\ TransactionCount' = TransactionCount + 1
    /\ UNCHANGED <<rounds, blk, ret, log, vctx, LatestFinalizedBlock, CurrentRound,
                   beaconVars, Blocks, Self, fbf, rcalls, chan, coll, gen>>

(* The chain moves to the next round (a block of the current round was     *)
(* notarized elsewhere)                                                    *)
AdvanceRound ==
    /\ CurrentRound < 1 + MaxRoundsAhead
    /\ CurrentRound' = CurrentRound + 1
    /\ UNCHANGED <<rounds, blk, ret, log, vctx, LatestFinalizedBlock,
                   beaconVars, collVars>>

NextGenerator ==
    \/ GenStart
    \/ GenCheck
    \/ GenAttempt
    \/ GenWait
    \/ GenPublish
    \/ TxnArrives
    \/ AdvanceRound
    \/ BlockTimeTimer
    \/ VerifyBuffered
    \/ ReceiveBlock

SpecGenerator == InitGenerator /\ [][NextGenerator]_vars

----------------------------------------------------------------------------
(* FinalizedBlockFetcher: the worker of StartFinalizedBlockFetcherWorker,  *)
(* the callers of AsyncFetchFinalizedBlockFromSharders, the goroutines of  *)
(* asyncFetchFinalizedBlock and the clock with the worker's ticker.        *)

Lifetime == 2       \* config.GetFBFetchingLifetime(), in clock units
MaxClock == 5       \* the clock runs from 0 to MaxClock
MaxRequests == 3    \* calls of AsyncFetchFinalizedBlockFromSharders

FetchingAnyAge(fetching, hash, now) == fetching[hash] # NoTime

(* line 95: tp, ok := fetching[hash]; ok && now.Sub(tp) < lt *)
StillFetching(fetching, hash, now) ==
    fetching[hash] # NoTime /\ now - fetching[hash] < Lifetime

ExceededStrictly(tp, now) == now - tp > Lifetime

(* line 105: now.Sub(tp) >= lt *)
LifetimeExceeded(tp, now) == now - tp >= Lifetime

InitFetcher == InitRound

(* time passes; the ticker puts a tick in its channel (of capacity one)    *)
(* every Lifetime                                                          *)
FbfTime ==
    /\ fbf.now < MaxClock
    /\ fbf' = [fbf EXCEPT !.now = @ + 1,
                          !.tick = @ \/ (fbf.now + 1) % Lifetime = 0]
    /\ UNCHANGED <<rounds, blk, ret, log, vctx, LatestFinalizedBlock, CurrentRound,
                   beaconVars, Blocks, Self, rcalls, chan, coll, genVars>>

(* AsyncFetchFinalizedBlockFromSharders(ctx, hash) *)
AsyncFetchFinalizedBlockFromSharders ==
    \E hash \in FetchHashes :
        /\ fbf.requests < MaxRequests
        /\ fbf' = [fbf EXCEPT !.add = Append(@, hash), !.requests = @ + 1]
        /\ UNCHANGED <<rounds, blk, ret, log, vctx, LatestFinalizedBlock, CurrentRound,
                       beaconVars, Blocks, Self, rcalls, chan, coll, genVars>>

(* the worker, case hash := <-fbf.got *)
WorkerGot ==
    /\ ~fbf.stopped
    /\ fbf.got # <<>>
    /\ fbf' = [fbf EXCEPT !.got = Tail(@), !.fetching[Head(fbf.got)] = NoTime]
    /\ UNCHANGED <<rounds, blk, ret, log, vctx, LatestFinalizedBlock, CurrentRound,
                   beaconVars, Blocks, Self, rcalls, chan, coll, genVars>>

(* the worker, case hash := <-fbf.add *)
WorkerAdd ==
    /\ ~fbf.stopped
    /\ fbf.add # <<>>
    /\ LET hash == Head(fbf.add)
       IN  IF StillFetching(fbf.fetching, hash, fbf.now)
           THEN fbf' = [fbf EXCEPT !.add = Tail(@)]
           ELSE fbf' = [fbf EXCEPT !.add = Tail(@),
                                   !.fetching[hash] = fbf.now,
                                   !.running[hash] = @ + 1,
                                   !.spawned[hash] = @ + 1]
    /\ UNCHANGED <<rounds, blk, ret, log, vctx, LatestFinalizedBlock, CurrentRound,
                   beaconVars, Blocks, Self, rcalls, chan, coll, genVars>>

(* the worker, case <-tick.C *)
WorkerTick ==
    /\ ~fbf.stopped
    /\ fbf.tick
    /\ fbf' = [fbf EXCEPT !.tick = FALSE,
                          !.fetching = [hash \in FetchHashes |->
                              IF @[hash] # NoTime /\ LifetimeExceeded(@[hash], fbf.now)
                              THEN NoTime ELSE @[hash]]]
    /\ UNCHANGED <<rounds, blk, ret, log, vctx, LatestFinalizedBlock, CurrentRound,
                   beaconVars, Blocks, Self, rcalls, chan, coll, genVars>>

(* the worker, case <-ctx.Done() *)
WorkerDone ==
    /\ ~fbf.stopped
    /\ fbf' = [fbf EXCEPT !.stopped = TRUE]
    /\ UNCHANGED <<rounds, blk, ret, log, vctx, LatestFinalizedBlock, CurrentRound,
                   beaconVars, Blocks, Self, rcalls, chan, coll, genVars>>

(* a goroutine of asyncFetchFinalizedBlock ends: with the hash sent on got *)
(* (the block was there or was fetched), or without it (an error return,   *)
(* or the context is done)                                                 *)
asyncFetchFinalizedBlock ==
    \E hash \in FetchHashes : \E sent \in BOOLEAN :
        /\ fbf.running[hash] > 0
        /\ fbf' = [fbf EXCEPT !.running[hash] = @ - 1,
                              !.got = IF sent THEN Append(@, hash) ELSE @]
        /\ UNCHANGED <<rounds, blk, ret, log, vctx, LatestFinalizedBlock, CurrentRound,
                       beaconVars, Blocks, Self, rcalls, chan, coll, genVars>>

NextFetcher ==
    \/ FbfTime
    \/ AsyncFetchFinalizedBlockFromSharders
    \/ WorkerGot
    \/ WorkerAdd
    \/ WorkerTick
    \/ WorkerDone
    \/ asyncFetchFinalizedBlock

SpecFetcher == InitFetcher /\ [][NextFetcher]_vars

----------------------------------------------------------------------------
(* Specification of one round that is filled by its setters and restarted: *)
(* blocks, shares, timeout votes and counts, the seed and the soft timeout *)
(* count change, and Round.Restart is called at any point.                 *)

MaxRestartBlocks == 1   \* blocks proposed between two restarts
MaxSoftTimeouts == 1    \* soft timeouts counted between two restarts

(* timeoutCounter.SetTimeoutCount: [r, set] *)
SetTimeoutCount(r, count) ==
    IF count <= r.count THEN [r |-> r, set |-> FALSE]
    ELSE [r |-> [r EXCEPT !.count = count], set |-> TRUE]

(* Round.IncSoftTimeoutCount *)
IncSoftTimeoutCount(r) == [r EXCEPT !.softTimeoutCount = @ + 1]

RestartCalled == [op |-> "Restart", arg |-> 0, ok |-> TRUE]

FillAddNotarizedBlock ==
    /\ Len(rounds[1].proposedBlocks) < MaxRestartBlocks
    /\ \E b \in Objs : \E o \in AddNotarizedBlockOutcomes(rounds[1], blk, b) :
        /\ rounds' = [rounds EXCEPT ![1] = o.r]
        /\ blk' = o.bs
    /\ ret' = NoRet
    /\ UNCHANGED <<log, chainVars>>

FillAddVRFShare ==
    \E p \in Miners :
        LET share == [party |-> p, tc |-> GetTimeoutCount(rounds[1]), share |-> ValidShare]
            o == AddVRFShare(rounds[1], share, T)
        IN  /\ rounds' = [rounds EXCEPT ![1] = o.r]
            /\ ret' = NoRet
            /\ UNCHANGED <<blk, log, chainVars>>

FillAddTimeoutVote ==
    \E num \in 0..MaxTC : \E id \in Miners :
        /\ rounds' = [rounds EXCEPT ![1] = AddTimeoutVote(@, num, id)]
        /\ ret' = NoRet
        /\ UNCHANGED <<blk, log, chainVars>>

FillSetTimeoutCount ==
    \E count \in 1..MaxTC :
        /\ rounds' = [rounds EXCEPT ![1] = SetTimeoutCount(@, count).r]
        /\ ret' = NoRet
        /\ UNCHANGED <<blk, log, chainVars>>

FillSetRandomSeed ==
    \E seed \in 1..NumSeeds :
        /\ rounds' = [rounds EXCEPT ![1] = SetRandomSeed(@, seed)]
        /\ ret' = NoRet
        /\ UNCHANGED <<blk, log, chainVars>>

FillIncSoftTimeoutCount ==
    /\ rounds[1].softTimeoutCount < MaxSoftTimeouts
    /\ rounds' = [rounds EXCEPT ![1] = IncSoftTimeoutCount(@)]
    /\ ret' = NoRet
    /\ UNCHANGED <<blk, log, chainVars>>

NextRestart ==
    \/ FillAddNotarizedBlock
    \/ FillAddVRFShare
    \/ FillAddTimeoutVote
    \/ FillSetTimeoutCount
    \/ FillSetRandomSeed
    \/ FillIncSoftTimeoutCount
    \/ CallRestart

SpecRestart == InitRound /\ [][NextRestart]_vars

----------------------------------------------------------------------------
(* The state and seed setters of a round called by several goroutines.     *)
(* Every atomic load and store is a step; the methods that take r.mutex    *)
(* hold it from their first step to their return. No Restart and no        *)
(* ResetState is called.                                                   *)

NumStateSeeds == 2      \* seeds SetRandomSeed is called with
MaxFinalizings == 2     \* SetFinalizing calls that return true, over all rounds

InitState ==
    /\ rounds = (0 :> Provider(0) @@ 1 :> Provider(1))
    /\ blk = [o \in Objs |-> NewBlock(HashOf(o))]
    /\ ret = NoRet
    /\ log = <<>>
    /\ vctx = (0 :> "none" @@ 1 :> "none")
    /\ LatestFinalizedBlock = Nil
    /\ CurrentRound = 0
    /\ IsDkgEnabled = TRUE
    /\ bproc = [p \in Miners |-> IdleCall]
    /\ Blocks = << >>
    /\ Self = NumMiners
    /\ gen = NoGenerator
    /\ fbf = NoFetcher
    /\ rcalls = NoCalls
    /\ TransactionCount = 0
    /\ chan = <<>>
    /\ coll = NoCollector

stateFrame ==
    UNCHANGED <<blk, vctx, LatestFinalizedBlock, CurrentRound, beaconVars,
                Blocks, Self, fbf, genVars, chan, coll>>

(* the state a call passes to setState *)
TargetState(c) ==
    CASE c.op = "SetRandomSeed" -> RoundVRFComplete
      [] c.op = "SetFinalizing" -> RoundStateFinalizing
      [] c.op = "Finalize" -> RoundStateFinalized
      [] OTHER -> c.arg

Begin(p, c) ==
    /\ rcalls' = [rcalls EXCEPT !.proc[p] = c]
    /\ UNCHANGED <<rounds, ret, log>>
    /\ stateFrame

Step(p, pc) == rcalls' = [rcalls EXCEPT !.proc[p].pc = pc]

(* the call of p returns; a holder of the mutex unlocks it *)
ReturnOf(p, ok) ==
    /\ rcalls' = [rcalls EXCEPT !.proc[p] = NoCall,
                                !.mutex = IF @ = p THEN 0 ELSE @]
    /\ ret' = [op |-> rcalls.proc[p].op, arg |-> <<p, rcalls.proc[p].n>>, ok |-> ok]
    /\ log' = IF rcalls.proc[p].op = "SetFinalizing" /\ ok
              THEN Append(log, [op |-> "SetFinalizing", round |-> rcalls.proc[p].n,
                                arg |-> p])
              ELSE log

BeginSetRandomSeed ==
    \E p \in Callers : \E seed \in 1..NumStateSeeds :
        /\ rcalls.proc[p].pc = "idle"
        /\ Begin(p, [NoCall EXCEPT !.op = "SetRandomSeed", !.n = 1, !.pc = "has",
                                   !.arg = seed])

BeginSetState ==
    \E p \in Callers : \E state \in RoundShareVRF..RoundStateFinalized :
        /\ rcalls.proc[p].pc = "idle"
        /\ Begin(p, [NoCall EXCEPT !.op = "SetState", !.n = 1, !.pc = "load",
                                   !.arg = state])

BeginSetFinalizing ==
    \E p \in Callers : \E n \in DOMAIN rounds :
        /\ rcalls.proc[p].pc = "idle"
        /\ Len(log) < MaxFinalizings
        /\ Begin(p, [NoCall EXCEPT !.op = "SetFinalizing", !.n = n, !.pc = "lock"])

BeginFinalize ==
    \E p \in Callers : \E b \in Objs :
        /\ rcalls.proc[p].pc = "idle"
        /\ isFinalizing(rounds[1])
        /\ Begin(p, [NoCall EXCEPT !.op = "Finalize", !.n = 1, !.pc = "lock",
                                   !.arg = b])

(* r.mutex.Lock() *)
LockMutex ==
    \E p \in Callers :
        /\ rcalls.proc[p].pc = "lock"
        /\ rcalls.mutex = 0
        /\ rcalls' = [rcalls EXCEPT !.mutex = p,
                        !.proc[p].pc = IF rcalls.proc[p].op = "SetFinalizing"
                                       THEN "isFinalized" ELSE "load"]
        /\ UNCHANGED <<rounds, ret, log>>
        /\ stateFrame

(* SetRandomSeed line 429: atomic.LoadUint32(&r.hasRandomSeed) == 1 *)
LoadHasRandomSeed ==
    \E p \in Callers :
        /\ rcalls.proc[p].pc = "has"
        /\ IF rounds[1].hasRandomSeed
           THEN ReturnOf(p, FALSE)
           ELSE Step(p, "seed") /\ UNCHANGED <<ret, log>>
        /\ UNCHANGED rounds
        /\ stateFrame

(* SetRandomSeed line 432: r.setRandomSeed(seed) *)
StoreRandomSeed ==
    \E p \in Callers :
        /\ rcalls.proc[p].pc = "seed"
        /\ rounds' = [rounds EXCEPT ![1].RandomSeed = rcalls.proc[p].arg]
        /\ Step(p, "load")
        /\ UNCHANGED <<ret, log>>
        /\ stateFrame

(* SetFinalizing line 584, first operand: r.isFinalized() *)
LoadIsFinalized ==
    \E p \in Callers :
        /\ rcalls.proc[p].pc = "isFinalized"
        /\ IF isFinalized(rounds[rcalls.proc[p].n])
           THEN ReturnOf(p, FALSE)
           ELSE Step(p, "isFinalizing") /\ UNCHANGED <<ret, log>>
        /\ UNCHANGED rounds
        /\ stateFrame

(* SetFinalizing line 584, second operand: r.isFinalizing() *)
LoadIsFinalizing ==
    \E p \in Callers :
        /\ rcalls.proc[p].pc = "isFinalizing"
        /\ IF isFinalizing(rounds[rcalls.proc[p].n])
           THEN ReturnOf(p, FALSE)
           ELSE Step(p, "load") /\ UNCHANGED <<ret, log>>
        /\ UNCHANGED rounds
        /\ stateFrame

(* what a call does after its setState *)
AfterSetState(p) ==
    CASE rcalls.proc[p].op = "SetRandomSeed" ->
            Step(p, "setHas") /\ UNCHANGED <<ret, log>>
      [] rcalls.proc[p].op = "Finalize" ->
            Step(p, "block") /\ UNCHANGED <<ret, log>>
      [] OTHER -> ReturnOf(p, TRUE)

(* setState line 798: if state > r.getState() *)
LoadState ==
    \E p \in Callers :
        /\ rcalls.proc[p].pc = "load"
        /\ IF TargetState(rcalls.proc[p]) > getState(rounds[rcalls.proc[p].n])
           THEN Step(p, "store") /\ UNCHANGED <<ret, log>>
           ELSE AfterSetState(p)
        /\ UNCHANGED rounds
        /\ stateFrame

(* setState line 799: atomic.StoreInt32(&r.state, int32(state)) *)
StoreState ==
    \E p \in Callers :
        /\ rcalls.proc[p].pc = "store"
        /\ rounds' = [rounds EXCEPT ![rcalls.proc[p].n].state =
                                        TargetState(rcalls.proc[p])]
        /\ AfterSetState(p)
        /\ stateFrame

(* SetRandomSeed line 434: r.setHasRandomSeed(true) *)
StoreHasRandomSeed ==
    \E p \in Callers :
        /\ rcalls.proc[p].pc = "setHas"
        /\ rounds' = [rounds EXCEPT ![1].hasRandomSeed = TRUE]
        /\ Step(p, "perm")
        /\ UNCHANGED <<ret, log>>
        /\ stateFrame

(* SetRandomSeed lines 436-438: r.minerPerm = nil under the mutex *)
ClearMinerPerm ==
    \E p \in Callers :
        /\ rcalls.proc[p].pc = "perm"
        /\ rcalls.mutex = 0
        /\ rounds' = [rounds EXCEPT ![1].minerPerm = <<>>]
        /\ ReturnOf(p, TRUE)
        /\ stateFrame

(* Finalize lines 575-576: r.Block = b; r.BlockHash = b.Hash *)
StoreBlock ==
    \E p \in Callers :
        /\ rcalls.proc[p].pc = "block"
        /\ rounds' = [rounds EXCEPT ![1].Block = rcalls.proc[p].arg,
                                    ![1].BlockHash = blk[rcalls.proc[p].arg].Hash]
        /\ ReturnOf(p, TRUE)
        /\ stateFrame

(* The setters that store the state without the round's mutex, and *)
(* SetFinalizing beside them                                       *)
NextState ==
    \/ BeginSetRandomSeed
    \/ BeginSetState
    \/ BeginSetFinalizing
    \/ LockMutex
    \/ LoadHasRandomSeed
    \/ StoreRandomSeed
    \/ LoadIsFinalized
    \/ LoadIsFinalizing
    \/ LoadState
    \/ StoreState
    \/ StoreHasRandomSeed
    \/ ClearMinerPerm

SpecState == InitState /\ [][NextState]_vars

(* Only the methods that hold the round's mutex are called *)
NextFinalizing ==
    \/ BeginSetFinalizing
    \/ BeginFinalize
    \/ LockMutex
    \/ LoadIsFinalized
    \/ LoadIsFinalizing
    \/ LoadState
    \/ StoreState
    \/ StoreBlock

SpecFinalizing == InitState /\ [][NextFinalizing]_vars

----------------------------------------------------------------------------
(* Specification of the chain's block cache: Chain.AddBlock and            *)
(* Chain.DeleteBlock called with the block objects of rounds 1 and 2.      *)

(* Chain.DeleteBlock *)
DeleteBlock(w, b) ==
    IF w.blk[b].Hash \notin DOMAIN w.Blocks THEN w
    ELSE [w EXCEPT !.Blocks = [h \in DOMAIN @ \ {w.blk[b].Hash} |-> @[h]]]

(* The cache holds the genesis block and, when round 1 is finalized, its   *)
(* finalized block. Hashes 1 and 2 are blocks of round 1 on the genesis    *)
(* block; the other hashes are blocks of round 2 on one of them, whose     *)
(* parent pointer an earlier verification may have set.                    *)
InitCache ==
    /\ \E parent \in {1, 2} : \E linked \in BOOLEAN :
        blk = [o \in Objs \cup {GenesisObj} |->
                 IF o = GenesisObj THEN GenesisBlock
                 ELSE IF RoundOf(HashOf(o)) = 1
                 THEN [NewBlock(HashOf(o)) EXCEPT !.PrevHash = GenesisHash]
                 ELSE [NewBlock(HashOf(o)) EXCEPT
                          !.Round = 2, !.PrevHash = parent,
                          !.PrevBlock = IF linked THEN parent ELSE Nil]]
    /\ \/ LatestFinalizedBlock = GenesisObj /\ Blocks = (GenesisHash :> GenesisObj)
       \/ LatestFinalizedBlock = 2 /\ Blocks = (GenesisHash :> GenesisObj @@ 2 :> 2)
    /\ rounds = (0 :> Provider(0) @@ 1 :> Provider(1))
    /\ ret = NoRet
    /\ log = <<>>
    /\ vctx = (0 :> "none" @@ 1 :> "none")
    /\ CurrentRound = 1
    /\ IsDkgEnabled = TRUE
    /\ bproc = [p \in Miners |-> IdleCall]
    /\ Self = NumMiners
    /\ gen = NoGenerator
    /\ fbf = NoFetcher
    /\ rcalls = NoCalls
    /\ TransactionCount = 0
    /\ chan = <<>>
    /\ coll = NoCollector

cacheFrame ==
    UNCHANGED <<rounds, log, vctx, LatestFinalizedBlock, CurrentRound, beaconVars,
                Self, fbf, rcalls, genVars, chan, coll>>

CallAddBlock ==
    \E b \in Objs :
        LET w == AddBlock(World, b)
        IN  /\ blk' = w.blk
            /\ Blocks' = w.Blocks
            /\ ret' = [op |-> "AddBlock", arg |-> b, ok |-> TRUE]
            /\ cacheFrame

CallDeleteBlock ==
    \E b \in Objs :
        LET w == DeleteBlock(World, b)
        IN  /\ blk' = w.blk
            /\ Blocks' = w.Blocks
            /\ ret' = [op |-> "DeleteBlock", arg |-> b, ok |-> TRUE]
            /\ cacheFrame

NextCache ==
    \/ CallAddBlock
    \/ CallDeleteBlock

SpecCache == InitCache /\ [][NextCache]_vars

----------------------------------------------------------------------------
(* Specification of the reads of a round's notarized blocks between        *)
(* AddNotarizedBlock calls. The chain weights of the blocks are inputs.    *)

(* Round.GetHeaviestNotarizedBlock *)
GetHeaviestNotarizedBlock(r) ==
    IF Len(r.notarizedBlocks) = 0 THEN Nil ELSE r.notarizedBlocks[1]

(* Round.GetBestRankedNotarizedBlock: [r, b]. rnb shares the array of      *)
(* r.notarizedBlocks, which GetBlocksByRank sorts in place.                *)
GetBestRankedNotarizedBlock(r, bs) ==
    IF Len(r.notarizedBlocks) = 0 THEN [r |-> r, b |-> Nil]
    ELSE IF Len(r.notarizedBlocks) = 1 THEN [r |-> r, b |-> r.notarizedBlocks[1]]
    ELSE LET rnb == GetBlocksByRank(r.notarizedBlocks, bs)
         IN  [r |-> [r EXCEPT !.notarizedBlocks = rnb], b |-> rnb[1]]

InitReads ==
    /\ \E weight \in [Hashes -> Weights] :
        blk = [o \in Objs |->
                 [NewBlock(HashOf(o)) EXCEPT !.ChainWeight = weight[HashOf(o)]]]
    /\ rounds = (1 :> Provider(1))
    /\ ret = NoRet
    /\ log = <<>>
    /\ vctx = (1 :> "none")
    /\ LatestFinalizedBlock = Nil
    /\ CurrentRound = 0
    /\ IsDkgEnabled = TRUE
    /\ bproc = [p \in Miners |-> IdleCall]
    /\ Blocks = << >>
    /\ Self = NumMiners
    /\ gen = NoGenerator
    /\ fbf = NoFetcher
    /\ rcalls = NoCalls
    /\ TransactionCount = 0
    /\ chan = <<>>
    /\ coll = NoCollector

CallGetHeaviestNotarizedBlock ==
    /\ ret' = [op |-> "GetHeaviestNotarizedBlock",
               arg |-> GetHeaviestNotarizedBlock(rounds[1]), ok |-> TRUE]
    /\ UNCHANGED <<rounds, blk, log, chainVars>>

CallGetBlockToExtend ==
    /\ ret' = [op |-> "GetBlockToExtend",
               arg |-> GetBlockToExtend(rounds[1]), ok |-> TRUE]
    /\ UNCHANGED <<rounds, blk, log, chainVars>>

CallGetBestRankedNotarizedBlock ==
    LET o == GetBestRankedNotarizedBlock(rounds[1], blk)
    IN  /\ rounds' = [rounds EXCEPT ![1] = o.r]
        /\ ret' = [op |-> "GetBestRankedNotarizedBlock", arg |-> o.b, ok |-> TRUE]
        /\ UNCHANGED <<blk, log, chainVars>>

NextReads ==
    \/ CallAddNotarizedBlock
    \/ CallGetHeaviestNotarizedBlock
    \/ CallGetBlockToExtend
    \/ CallGetBestRankedNotarizedBlock

SpecReads == InitReads /\ [][NextReads]_vars

----------------------------------------------------------------------------
(* Specification of Chain.GetFinalizedBlockFromSharders: the sharders'     *)
(* responses reach the handler in any order, then the collected blocks are *)
(* sorted and the first one is returned. The rounds of the blocks are      *)
(* inputs.                                                                 *)

NumSharders == 3    \* sharders of the magic block
MaxFBRound == 2     \* rounds of the blocks the sharders return

(* the handler of a response: the tally of the block's hash is raised, or  *)
(* the block is appended with a tally of 1                                 *)
handler(finalizedBlocks, bs, fb) ==
    IF \E i \in DOMAIN finalizedBlocks :
            bs[finalizedBlocks[i].Block].Hash = bs[fb].Hash
    THEN LET i == CHOOSE i \in DOMAIN finalizedBlocks :
                      bs[finalizedBlocks[i].Block].Hash = bs[fb].Hash
         IN  [finalizedBlocks EXCEPT ![i].consensus = @ + 1]
    ELSE Append(finalizedBlocks, [Block |-> fb, consensus |-> 1])

(* the less function passed to sort.Slice (lines 234-236) *)
FBLess(bs, x, y) ==
    \/ bs[x.Block].Round >= bs[y.Block].Round
    \/ x.consensus > y.consensus

SwapAt(q, i, j) == [q EXCEPT ![i] = q[j], ![j] = q[i]]

(* sort.Slice on a slice of up to 12 elements is an insertion sort: the    *)
(* element at j moves left while less(j, j-1) holds.                       *)
RECURSIVE MoveLeft(_, _, _)
MoveLeft(q, bs, j) ==
    IF j > 1 /\ FBLess(bs, q[j], q[j - 1])
    THEN MoveLeft(SwapAt(q, j, j - 1), bs, j - 1)
    ELSE q

RECURSIVE SortSlice(_, _, _)
SortSlice(q, bs, i) ==
    IF i > Len(q) THEN q ELSE SortSlice(MoveLeft(q, bs, i), bs, i + 1)

(* GetFinalizedBlockFromSharders after the requests: [sorted, fb, err] *)
GetFinalizedBlockFromSharders(finalizedBlocks, bs) ==
    LET sorted == SortSlice(finalizedBlocks, bs, 2)
    IN  IF Len(sorted) = 0
        THEN [sorted |-> sorted, fb |-> Nil, err |-> TRUE]
        ELSE [sorted |-> sorted, fb |-> sorted[1].Block, err |-> FALSE]

InitSharders ==
    /\ \E round \in [Hashes -> 1..MaxFBRound] :
        blk = [o \in Objs |->
                 [NewBlock(HashOf(o)) EXCEPT !.Round = round[HashOf(o)]]]
    /\ rounds = (1 :> Provider(1))
    /\ ret = NoRet
    /\ log = <<>>
    /\ vctx = (1 :> "none")
    /\ LatestFinalizedBlock = Nil
    /\ CurrentRound = 0
    /\ IsDkgEnabled = TRUE
    /\ bproc = [p \in Miners |-> IdleCall]
    /\ Blocks = << >>
    /\ Self = NumMiners
    /\ gen = NoGenerator
    /\ fbf = NoFetcher
    /\ rcalls = NoCalls
    /\ TransactionCount = 0
    /\ chan = <<>>
    /\ coll = NoCollector

shardersFrame ==
    UNCHANGED <<rounds, blk, vctx, LatestFinalizedBlock, CurrentRound, beaconVars,
                Blocks, Self, rcalls, chan, coll, genVars>>

(* a sharder answers the request with a block; a sharder answers once *)
SharderResponds ==
    \E fb \in Objs :
        /\ ret.op = "none"
        /\ Len(log) < NumSharders
        /\ fbf' = [fbf EXCEPT !.finalizedBlocks = handler(@, blk, fb)]
        /\ log' = Append(log, [op |-> "response", round |-> blk[fb].Round,
                               arg |-> blk[fb].Hash])
        /\ UNCHANGED ret
        /\ shardersFrame

(* RequestEntityFromAll has returned: sort, and return the first block *)
ReturnFinalizedBlock ==
    LET o == GetFinalizedBlockFromSharders(fbf.finalizedBlocks, blk)
    IN  /\ ret.op = "none"
        /\ fbf' = [fbf EXCEPT !.finalizedBlocks = o.sorted]
        /\ ret' = [op |-> "GetFinalizedBlockFromSharders", arg |-> o.fb,
                   ok |-> ~o.err]
        /\ UNCHANGED log
        /\ shardersFrame

NextSharders ==
    \/ SharderResponds
    \/ ReturnFinalizedBlock

SpecSharders == InitSharders /\ [][NextSharders]_vars

----------------------------------------------------------------------------
(* Specification of the collector of round 1 when the proposer of rank 0   *)
(* sends two blocks: hashes 1 and 2 are its blocks, the other hashes are   *)
(* blocks of the proposer of rank 1. This node made none of them.          *)

EquivocatedRank(h) == IF h <= 2 THEN 0 ELSE 1

InitEquivocation ==
    /\ \E vf \in [Hashes -> BOOLEAN] :
        LET bs == [o \in Objs \cup {GenesisObj} |->
                     IF o = GenesisObj THEN GenesisBlock
                     ELSE [NewBlock(HashOf(o)) EXCEPT
                              !.RoundRank = EquivocatedRank(HashOf(o)),
                              !.MinerID = 1 + EquivocatedRank(HashOf(o)),
                              !.verifies = vf[HashOf(o)],
                              !.PrevHash = GenesisHash]]
            g == GenerateGenesisBlock(bs, GenesisObj)
            r1 == [Provider(1) EXCEPT !.RandomSeed = 1, !.hasRandomSeed = TRUE,
                                      !.state = RoundVRFComplete]
        IN  /\ rounds = (0 :> g.gr @@ 1 :> r1)
            /\ blk = g.bs
    /\ Self = NumMiners
    /\ gen = NoGenerator
    /\ fbf = NoFetcher
    /\ rcalls = NoCalls
    /\ TransactionCount = 0
    /\ Blocks = (GenesisHash :> GenesisObj)
    /\ vctx = (0 :> "none" @@ 1 :> "none")
    /\ LatestFinalizedBlock = GenesisObj
    /\ CurrentRound = 1
    /\ ret = NoRet
    /\ log = <<>>
    /\ IsDkgEnabled = TRUE
    /\ bproc = [p \in Miners |-> IdleCall]
    /\ chan = <<>>
    /\ coll = NoCollector

SpecEquivocation == InitEquivocation /\ [][NextCollector]_vars

----------------------------------------------------------------------------
(* Specification of a round's timeoutCounter: votes arrive, the count is   *)
(* set, and IncrementTimeoutCount takes the votes into the count.          *)

MaxVoteNum == 2     \* timeout numbers voted for are 0..MaxVoteNum
MaxCount == 4       \* the timeout count stays within 0..MaxCount

(* timeoutCounter.resetVotes *)
resetVotes(r) == [r EXCEPT !.timeoutVotes = [k \in {} |-> 0], !.votersVoted = {}]

MoreVotesOnly(v, k, mostVotes, mostTimeout) == v > mostVotes

(* IncrementTimeoutCount line 320: does the visited entry become the most  *)
(* voted one                                                               *)
MostVotedSoFar(v, k, mostVotes, mostTimeout) ==
    v > mostVotes \/ (v = mostVotes /\ k > mostTimeout)

(* IncrementTimeoutCount lines 318-325: the loop over the votes, visited   *)
(* in the given order                                                      *)
RECURSIVE MostVoted(_, _, _, _)
MostVoted(votes, order, mostVotes, mostTimeout) ==
    IF order = <<>> THEN [mostVotes |-> mostVotes, mostTimeout |-> mostTimeout]
    ELSE LET k == Head(order)
             v == votes[k]
         IN  IF MostVotedSoFar(v, k, mostVotes, mostTimeout)
             THEN MostVoted(votes, Tail(order), v, k)
             ELSE MostVoted(votes, Tail(order), mostVotes, mostTimeout)

(* The orders in which a range over a map can visit its keys *)
VisitOrders(keys) ==
    {q \in [1..Cardinality(keys) -> keys] : Range(q) = keys}

(* timeoutCounter.IncrementTimeoutCount: one outcome per order of visit *)
IncrementTimeoutCount(r) ==
    {LET m == MostVoted(r.timeoutVotes, order, 0, r.count)
     IN  [resetVotes(r) EXCEPT
            !.count = IF m.mostTimeout <= r.count THEN r.count + 1
                      ELSE m.mostTimeout + 1] :
        order \in VisitOrders(DOMAIN r.timeoutVotes)}

CallAddTimeoutVote ==
    \E num \in 0..MaxVoteNum : \E id \in Miners :
        /\ rounds' = [rounds EXCEPT ![1] = AddTimeoutVote(@, num, id)]
        /\ ret' = [op |-> "AddTimeoutVote", arg |-> <<num, id>>,
                   ok |-> id \notin rounds[1].votersVoted]
        /\ UNCHANGED <<blk, log, chainVars>>

CallIncrementTimeoutCount ==
    \E r \in IncrementTimeoutCount(rounds[1]) :
        /\ r.count <= MaxCount
        /\ rounds' = [rounds EXCEPT ![1] = r]
        /\ ret' = [op |-> "IncrementTimeoutCount", arg |-> r.count, ok |-> TRUE]
        /\ UNCHANGED <<blk, log, chainVars>>

CallSetTimeoutCount ==
    \E count \in 1..MaxCount :
        LET o == SetTimeoutCount(rounds[1], count)
        IN  /\ rounds' = [rounds EXCEPT ![1] = o.r]
            /\ ret' = [op |-> "SetTimeoutCount", arg |-> count, ok |-> o.set]
            /\ UNCHANGED <<blk, log, chainVars>>

NextTimeout ==
    \/ CallAddTimeoutVote
    \/ CallIncrementTimeoutCount
    \/ CallSetTimeoutCount

SpecTimeout == InitRound /\ [][NextTimeout]_vars

----------------------------------------------------------------------------
(* C1: every block of a round's notarized_blocks holds at least T tickets, *)
(* whichever path added it.                                                *)
C1_EveryNotarizedBlockHasQuorum ==
    \A n \in DOMAIN rounds :
        \A b \in Range(rounds[n].notarizedBlocks) :
            Cardinality(blk[b].tickets) >= T

(* C1 as amended: every block that ProcessVerifiedTicket found notarized   *)
(* and handed to Round.AddNotarizedBlock holds at least T tickets of       *)
(* distinct signers, and its round holds a notarized block of its hash.    *)
C1_TicketNotarizedHasQuorum ==
    \A i \in DOMAIN log :
        log[i].op = "SendNotarization" =>
            /\ Cardinality(blk[log[i].arg].tickets) >= T
            /\ \E b \in Range(rounds[log[i].round].notarizedBlocks) :
                  blk[b].Hash = blk[log[i].arg].Hash

(* ProcessVerifiedTicket has notarized a block of round 1 *)
C1_Witness ==
    \E i \in DOMAIN log :
        /\ log[i].op = "SendNotarization"
        /\ log[i].round = 1
        /\ log[i].arg \in Range(rounds[1].notarizedBlocks)

(* C2: after any sequence of Round.AddNotarizedBlock calls no two blocks   *)
(* of notarized_blocks have the same rank.                                 *)
C2_NoTwoNotarizedOfOneRank ==
    \A n \in DOMAIN rounds :
        LET nb == rounds[n].notarizedBlocks
        IN  \A i \in DOMAIN nb : \A j \in DOMAIN nb :
                i # j => blk[nb[i]].RoundRank # blk[nb[j]].RoundRank

(* A block of another hash and the same rank has replaced a notarized one: *)
(* a block is marked notarized, is no longer in the set, and a block of    *)
(* its rank is.                                                            *)
C2_Witness ==
    \E o \in Objs : \E i \in DOMAIN rounds[1].notarizedBlocks :
        /\ blk[o].notarized
        /\ o \notin Range(rounds[1].notarizedBlocks)
        /\ blk[rounds[1].notarizedBlocks[i]].RoundRank = blk[o].RoundRank
        /\ blk[rounds[1].notarizedBlocks[i]].Hash # blk[o].Hash

C7_FinalizedBestBlockImmutable ==
    [][\A n \in DOMAIN rounds :
        (rounds[n].state = RoundStateFinalized
         /\ rounds'[n].state = RoundStateFinalized)
            => (rounds'[n].Block = rounds[n].Block
                /\ rounds'[n].BlockHash = rounds[n].BlockHash)]_vars

StartsOf(n) == {i \in DOMAIN log : log[i].op = "startRound" /\ log[i].round = n}

(* C3: for a round that is not restarted the seed computation and round    *)
(* start are triggered at most once, however the AddVRFShare calls of the  *)
(* parties interleave.                                                     *)
C3_SeedReadyOnce ==
    Cardinality(StartsOf(1)) <= 1

(* C4: in DKG mode the shares combined into the group signature are        *)
(* exactly T.                                                              *)
C4_CombinedFromExactlyT ==
    IsDkgEnabled =>
        \A i \in StartsOf(1) : Cardinality(log[i].arg.from) = T

(* C5: in non-DKG mode the beacon starts round R with rand(seed of         *)
(* Round(R-1)) and with no other value.                                    *)
C5_NonDkgSeedFromPrevious ==
    ~IsDkgEnabled =>
        \A i \in StartsOf(1) : log[i].arg.seed = Rand63(rounds[0].RandomSeed)

IsTimerAttempt(e) == e.op = "verify" /\ e.arg.from = "timer"

TimerAttempts == SelectSeq(log, IsTimerAttempt)

(* C8: a block the collector receives before the block-time timer fires    *)
(* is only appended to the buffer: in that step nothing else changes, and  *)
(* while the timer has not fired no block has been verified or holds this  *)
(* node's ticket; the loop over the buffer runs after the timer event.     *)
C8_BufferedUntilTimer ==
    /\ [](coll.timer # "fired" =>
            /\ \A i \in DOMAIN log :
                  log[i].op \notin {"verify", "recv", "SendVerificationTicket"}
            /\ \A b \in Objs : Self \notin blk[b].tickets
            /\ coll.pc # "loop")
    /\ [][(coll.timer = "running" /\ Len(chan) > 0 /\ chan' = Tail(chan)) =>
            /\ coll' = [coll EXCEPT !.blocks = Append(coll.blocks, Head(chan))]
            /\ <<rounds, blk, log, vctx, Blocks>>' = <<rounds, blk, log, vctx, Blocks>>]_vars

C8_Witness ==
    /\ coll.timer = "running"
    /\ Len(coll.blocks) >= 2
    /\ Len(chan) = 0
    /\ \E b \in Range(coll.blocks) : blk[b].MinerID # Self /\ blk[b].verifies

(* C9: once the timer has fired, a block taken from the verify channel is  *)
(* verified if and only if the round has no best block or the block's rank *)
(* is strictly lower than the best block's; a block of equal or higher     *)
(* rank is dropped.                                                        *)
C9_VerifiedIffStrictlyBetter ==
    \A i \in DOMAIN log :
        /\ log[i].op = "recv" =>
              LET b == log[i].arg.b
                  best == log[i].arg.best
                  verified == /\ i < Len(log)
                              /\ log[i + 1].op = "verify"
                              /\ log[i + 1].arg.b = b
                              /\ log[i + 1].arg.from = "chan"
              IN  verified <=>
                      (best = Nil \/ blk[b].RoundRank < blk[best].RoundRank)
        /\ (log[i].op = "verify" /\ log[i].arg.from = "chan") =>
              i > 1 /\ log[i - 1].op = "recv" /\ log[i - 1].arg.b = log[i].arg.b

C9_Witness ==
    \E i, j \in DOMAIN log :
        /\ log[i].op = "recv" /\ log[j].op = "recv"
        /\ log[i].arg.best # Nil /\ log[j].arg.best # Nil
        /\ blk[log[i].arg.b].RoundRank >= blk[log[i].arg.best].RoundRank
        /\ (i = Len(log) \/ log[i + 1].op # "verify")
        /\ blk[log[j].arg.b].RoundRank < blk[log[j].arg.best].RoundRank
        /\ j < Len(log) /\ log[j + 1].op = "verify"

(* The buffer in ascending rank order, equal ranks in arrival order *)
IsSortedByRank(sorted, arrived) ==
    /\ Len(sorted) = Len(arrived)
    /\ Range(sorted) = Range(arrived)
    /\ \A i, j \in DOMAIN sorted : i < j =>
          \/ blk[sorted[i]].RoundRank < blk[sorted[j]].RoundRank
          \/ /\ blk[sorted[i]].RoundRank = blk[sorted[j]].RoundRank
             /\ \E k, l \in DOMAIN arrived :
                   k < l /\ arrived[k] = sorted[i] /\ arrived[l] = sorted[j]

(* C10: at the timer event the buffer is put in ascending rank order,      *)
(* equal ranks in arrival order, and tried in that order up to the first   *)
(* success: the attempts are a prefix of the ordered buffer, all of them   *)
(* but the last failed, the loop goes on only while nothing succeeded, and *)
(* the block that succeeds becomes the round's best block and gets this    *)
(* node's ticket, every buffered block of lower rank having failed.        *)
C10_FirstSuccessInRankOrder ==
    /\ [](coll.timer = "fired" =>
            /\ IsSortedByRank(coll.blocks, coll.arrived)
            /\ Len(TimerAttempts) = coll.i
            /\ coll.i <= Len(coll.blocks)
            /\ \A k \in DOMAIN TimerAttempts :
                  /\ TimerAttempts[k].arg.b = coll.blocks[k]
                  /\ TimerAttempts[k].arg.ok => k = coll.i /\ coll.pc # "loop"
                  /\ TimerAttempts[k].arg.ok =>
                        \A c \in Range(coll.blocks) :
                            blk[c].RoundRank < blk[coll.blocks[k]].RoundRank =>
                                \E m \in 1..(k - 1) : coll.blocks[m] = c
            /\ (coll.pc # "loop" /\ coll.i < Len(coll.blocks)) =>
                  coll.i > 0 /\ TimerAttempts[coll.i].arg.ok)
    /\ [][(coll.pc = "loop" /\ Len(log') > Len(log)
            /\ log'[Len(log) + 1].op = "verify" /\ log'[Len(log) + 1].arg.ok) =>
            LET b == coll.blocks[coll.i + 1]
            IN  /\ log'[Len(log) + 1].arg.b = b
                /\ rounds'[1].Block = b
                /\ Self \in blk'[b].tickets]_vars

C10_Witness ==
    /\ coll.timer = "fired"
    /\ coll.pc = "select"
    /\ Len(coll.arrived) >= 2
    /\ coll.arrived # coll.blocks
    /\ coll.i = 1
    /\ TimerAttempts[1].arg.ok
    /\ rounds[1].Block = coll.blocks[1]
    /\ Self \in blk[coll.blocks[1]].tickets
    /\ \A k \in 2..Len(coll.blocks) :
          blk[coll.blocks[k]].verifies /\ Self \notin blk[coll.blocks[k]].tickets

NewEntries == {k \in DOMAIN log' : k > Len(log)}

(* C12: when the current round is past the block's round at a check-point, *)
(* GenerateRoundBlock returns round_mismatch (the backoff loop first goes  *)
(* back to the check before the next attempt when the transaction count    *)
(* has changed) and never returns a block; the block it gave up is not in  *)
(* the cache, not put up for verification, not sent and has no ticket. A   *)
(* verification entered in that situation fails with round_mismatch,       *)
(* gives no ticket and sends none.                                         *)
C12_RoundMismatchAborts ==
    /\ [](gen.err = "round_mismatch" =>
            /\ gen.pc = "done"
            /\ \A h \in DOMAIN Blocks : Blocks[h] # gen.b
            /\ gen.b \notin Submitted
            /\ blk[gen.b].tickets = {}
            /\ \A i \in DOMAIN log : log[i].op # "SendBlock")
    /\ [][(gen.pc \in {"top", "wait", "publish"} /\ gen' # gen
           /\ CurrentRound > blk[gen.b].Round) =>
            \/ /\ gen'.pc = "done"
               /\ gen'.err = "round_mismatch"
               /\ <<blk, Blocks, chan, log, coll>>' = <<blk, Blocks, chan, log, coll>>
            \/ /\ gen.pc = "wait"
               /\ gen.txnCount # TransactionCount
               /\ gen' = [gen EXCEPT !.pc = "top"]]_vars
    /\ [][(gen.pc \in {"top", "attempt", "wait", "publish"} /\ gen'.pc = "done"
           /\ CurrentRound > blk[gen.b].Round) => gen'.err # "none"]_vars
    /\ [][\A k \in NewEntries :
            (log'[k].op = "verify"
             /\ CurrentRound > blk[log'[k].arg.b].Round) =>
                /\ log'[k].arg.err = "round_mismatch"
                /\ ~log'[k].arg.ok
                /\ blk'[log'[k].arg.b].tickets = blk[log'[k].arg.b].tickets
                /\ rounds' = rounds
                /\ \A m \in NewEntries : log'[m].op # "SendVerificationTicket"]_vars

(* The generator gave up in its backoff loop because the round had passed *)
C12_Witness ==
    /\ gen.err = "round_mismatch"
    /\ Len(gen.delays) >= 1
    /\ CurrentRound > blk[gen.b].Round

(* The delay of the k-th sleep of a backoff: 128 ms doubled k-1 times,     *)
(* capped at one second                                                    *)
BackoffDelay(k) == IF 128 * (2 ^ (k - 1)) > 1000 THEN 1000 ELSE 128 * (2 ^ (k - 1))

(* C19: after InsufficientTxns the generator sleeps 128, 256, 512, 1000,   *)
(* 1000, ... ms for as long as the transaction count is the one read       *)
(* before the attempt and the round has not passed; a changed count ends   *)
(* the wait and generation is retried, the next backoff starting at 128.   *)
C19_BackoffDelays ==
    /\ [](\A k \in DOMAIN gen.delays : gen.delays[k] = BackoffDelay(k))
    /\ [](gen.pc = "wait" => gen.delay = BackoffDelay(Len(gen.delays) + 1))
    /\ [][gen.pc = "wait" /\ gen' # gen =>
            IF gen.txnCount # TransactionCount
            THEN gen' = [gen EXCEPT !.pc = "top"]
            ELSE IF CurrentRound > blk[gen.b].Round
            THEN gen'.pc = "done" /\ gen'.err = "round_mismatch"
            ELSE /\ gen'.pc = "wait"
                 /\ gen'.delays = Append(gen.delays, BackoffDelay(Len(gen.delays) + 1))]_vars
    /\ [][gen.pc = "attempt" /\ gen'.pc = "wait" =>
            gen'.delays = <<>> /\ gen'.delay = 128]_vars
    /\ [][gen.pc = "top" /\ gen'.pc = "attempt" =>
            gen'.txnCount = TransactionCount]_vars

(* Five sleeps in one backoff, the last two at the cap *)
C19_Witness ==
    /\ gen.pc = "wait"
    /\ gen.delays = <<128, 256, 512, 1000, 1000>>

(* The postcondition of a notarizing ProcessVerifiedTicket(n, b) taking    *)
(* the chain from w to v                                                   *)
NotarizingCallDone(w, v, n, b) ==
    LET new == {k \in DOMAIN v.log : k > Len(w.log)}
        at(op) == {k \in new : v.log[k].op = op}
        prev == (n - 1) \in DOMAIN w.rounds /\ w.rounds[n - 1].Block # Nil
    IN  /\ \E o \in Range(v.rounds[n].notarizedBlocks) :
              v.blk[o].Hash = w.blk[b].Hash /\ v.blk[o].notarized
        /\ v.vctx[n] # "active"
        /\ \E k \in at("SendNotarization") :
              v.log[k].round = n /\ v.log[k].arg = b
        /\ (n + 1) \in DOMAIN v.rounds
        /\ IF (n + 1) \in DOMAIN w.rounds
           THEN v.rounds[n + 1] = w.rounds[n + 1] /\ at("startNewRound") = {}
           ELSE /\ v.rounds[n + 1].Number = n + 1
                /\ v.rounds[n + 1].RandomSeed = Rand63(w.rounds[n].RandomSeed)
                /\ \E k \in at("startNewRound") :
                      /\ v.log[k].round = n + 1
                      /\ \A j \in at("SendNotarization") : j < k
        /\ IF prev
           THEN /\ isFinalizing(v.rounds[n - 1]) \/ isFinalized(v.rounds[n - 1])
                /\ ~(isFinalizing(w.rounds[n - 1]) \/ isFinalized(w.rounds[n - 1])) =>
                      /\ v.LatestFinalizedBlock = w.rounds[n - 1].Block
                      /\ \E k \in at("FinalizeRound") :
                            /\ v.log[k].round = n - 1
                            /\ \A j \in at("startNewRound") : j < k
           ELSE /\ at("FinalizeRound") = {}
                /\ v.LatestFinalizedBlock = w.LatestFinalizedBlock

(* C13: the ProcessVerifiedTicket call whose ticket first brings a block   *)
(* of round n to T tickets leaves a notarized block of that hash in the    *)
(* round's notarized set, cancels the round's verification, sends the      *)
(* notarization, creates and starts round n+1 when it did not exist and    *)
(* finalizes round n-1 when that round exists and has a best block; round  *)
(* n+1 starts only when round n holds a notarized block.                   *)
C13_NotarizingTicketEffects ==
    /\ [](\A b \in Objs : \A signer \in Miners :
            (/\ blk[b].Round \in DOMAIN rounds
             /\ Cardinality(blk[b].tickets) = T - 1
             /\ signer \notin blk[b].tickets) =>
                \A w \in ProcessVerifiedTicket(World, blk[b].Round, b, signer) :
                    /\ w.blk[b].tickets = blk[b].tickets \cup {signer}
                    /\ NotarizingCallDone(World, w, blk[b].Round, b))
    /\ [][\A k \in NewEntries :
            log'[k].op = "SendNotarization" =>
                /\ Cardinality(blk[log'[k].arg].tickets) = T - 1
                /\ Cardinality(blk'[log'[k].arg].tickets) = T
                /\ NotarizingCallDone(World, World', log'[k].round, log'[k].arg)]_vars
    /\ [][CurrentRound' > CurrentRound /\ CurrentRound' > 1 =>
            /\ (CurrentRound' - 1) \in DOMAIN rounds
            /\ rounds[CurrentRound' - 1].notarizedBlocks # <<>>]_vars

(* A quorum of tickets on a block of round 2 has finalized round 1, after  *)
(* a quorum on a block of round 1 had started round 2                      *)
C13_Witness ==
    /\ \E i \in DOMAIN log : \E j \in DOMAIN log :
          /\ i < j
          /\ log[i].op = "startNewRound" /\ log[i].round = 2
          /\ log[j].op = "SendNotarization" /\ log[j].round = 2
    /\ \E k \in DOMAIN log : log[k].op = "FinalizeRound" /\ log[k].round = 1
    /\ CurrentRound = 2

(* C14: Round.AddNotarizedBlock called with a block whose hash is already  *)
(* in notarized_blocks returns the stored block with new = false, leaves   *)
(* the set and best_block as they were, and merges the tickets of the      *)
(* given block into the stored one when the two are different objects.     *)
C14_SecondAddMergesTickets ==
    \A n \in DOMAIN rounds : \A g \in Objs :
        \A s \in Range(rounds[n].notarizedBlocks) :
            blk[s].Hash = blk[g].Hash =>
                \A o \in AddNotarizedBlockOutcomes(rounds[n], blk, g) :
                    /\ ~o.new
                    /\ o.b = s
                    /\ o.r.notarizedBlocks = rounds[n].notarizedBlocks
                    /\ o.r.Block = rounds[n].Block
                    /\ g # s => o.bs[s].tickets = blk[s].tickets \cup blk[g].tickets

(* The stored proposed block of the hash of b, Nil when there is none *)
StoredProposed(r, bs, b) ==
    LET same == {o \in Range(r.proposedBlocks) : bs[o].Hash = bs[b].Hash}
    IN  IF same = {} THEN Nil ELSE CHOOSE o \in same : TRUE

(* C15: proposed_blocks holds at most one block per hash and is sorted by  *)
(* rank ascending after any sequence of AddProposedBlock and               *)
(* AddNotarizedBlock calls; a call with a block whose hash is present      *)
(* returns the stored block with new = false and leaves the list as it     *)
(* was; a call with a new hash inserts the block.                          *)
C15_ProposedUniqueAndRanked ==
    /\ [](LET pb == rounds[1].proposedBlocks
          IN  /\ \A i \in DOMAIN pb : \A j \in DOMAIN pb :
                    i # j => blk[pb[i]].Hash # blk[pb[j]].Hash
              /\ \A i \in DOMAIN pb : \A j \in DOMAIN pb :
                    i < j => blk[pb[i]].RoundRank <= blk[pb[j]].RoundRank)
    /\ [](\A g \in Objs :
            LET o == addProposedBlock(rounds[1], blk, g)
                st == StoredProposed(rounds[1], blk, g)
            IN  IF st # Nil
                THEN ~o.new /\ o.b = st /\ o.r = rounds[1]
                ELSE /\ o.new /\ o.b = g
                     /\ Range(o.r.proposedBlocks) = Range(rounds[1].proposedBlocks) \cup {g}
                     /\ Len(o.r.proposedBlocks) = Len(rounds[1].proposedBlocks) + 1)
    /\ [][ret'.op \in {"AddProposedBlock", "AddNotarizedBlock"} =>
            IF StoredProposed(rounds[1], blk, ret'.arg) # Nil
            THEN /\ rounds'[1].proposedBlocks = rounds[1].proposedBlocks
                 /\ ret'.op = "AddProposedBlock" => ~ret'.ok
            ELSE /\ ret'.arg \in Range(rounds'[1].proposedBlocks)
                 /\ Len(rounds'[1].proposedBlocks) = Len(rounds[1].proposedBlocks) + 1
                 /\ ret'.ok]_vars

(* All hashes are proposed, in rank order and not in arrival order, and    *)
(* the last call gave a second object of a stored hash and was refused     *)
C15_Witness ==
    /\ Len(rounds[1].proposedBlocks) = NumHashes
    /\ \E i \in DOMAIN rounds[1].proposedBlocks :
          \E j \in DOMAIN rounds[1].proposedBlocks :
              /\ i < j
              /\ blk[rounds[1].proposedBlocks[i]].RoundRank
                    < blk[rounds[1].proposedBlocks[j]].RoundRank
              /\ blk[rounds[1].proposedBlocks[i]].Hash
                    > blk[rounds[1].proposedBlocks[j]].Hash
    /\ ret.op = "AddProposedBlock"
    /\ ~ret.ok
    /\ ret.arg \notin Range(rounds[1].proposedBlocks)

(* C16: Round.Restart empties proposed_blocks, notarized_blocks and the    *)
(* share set, clears best_block, the seed and the has-seed flag, sets the  *)
(* soft timeout count to 0 and the state to SHARING_VRF, and leaves the    *)
(* timeout counter (count, vote tally, voters) as it was.                  *)
C16_RestartClearsRound ==
    /\ [][ret' = RestartCalled =>
            /\ rounds'[1].proposedBlocks = <<>>
            /\ rounds'[1].notarizedBlocks = <<>>
            /\ \A p \in Miners : rounds'[1].shares[p] = NoShare
            /\ rounds'[1].Block = Nil
            /\ rounds'[1].RandomSeed = 0
            /\ ~rounds'[1].hasRandomSeed
            /\ rounds'[1].softTimeoutCount = 0
            /\ rounds'[1].state = RoundShareVRF
            /\ rounds'[1].count = rounds[1].count
            /\ rounds'[1].timeoutVotes = rounds[1].timeoutVotes
            /\ rounds'[1].votersVoted = rounds[1].votersVoted
            /\ rounds'[1].Number = rounds[1].Number]_vars
    /\ [](ret = RestartCalled => rounds[1].state = RoundShareVRF)

(* Restart was called on a round that held a notarized best block, shares, *)
(* a seed, a soft timeout and timeout votes and count                      *)
C16_Witness ==
    /\ ret = RestartCalled
    /\ rounds[1].count > 0
    /\ Cardinality(rounds[1].votersVoted) = NumMiners
    /\ \E num \in DOMAIN rounds[1].timeoutVotes : rounds[1].timeoutVotes[num] > 1
    /\ \E o \in Objs : blk[o].notarized

(* The steps of the fetcher's worker, told by what they consume *)
AddHandled == Len(fbf'.add) = Len(fbf.add) - 1

GotHandled == Len(fbf'.got) = Len(fbf.got) - 1

TickHandled == fbf.tick /\ ~fbf'.tick

(* C17: an entry of the fetching map is removed by the first tick handled  *)
(* when its age is at least the lifetime and by the Got of its hash, and   *)
(* by nothing else; once the entry is gone the next Add of the hash        *)
(* records the time and spawns a fresh fetch.                              *)
C17_EntryRemovedThenRefetched ==
    /\ [][TickHandled =>
            \A h \in FetchHashes :
                fbf'.fetching[h] =
                    IF fbf.fetching[h] # NoTime /\ fbf.now - fbf.fetching[h] >= Lifetime
                    THEN NoTime ELSE fbf.fetching[h]]_vars
    /\ [][GotHandled =>
            \A h \in FetchHashes :
                fbf'.fetching[h] =
                    IF h = Head(fbf.got) THEN NoTime ELSE fbf.fetching[h]]_vars
    /\ [][\A h \in FetchHashes :
            (fbf.fetching[h] # NoTime /\ fbf'.fetching[h] = NoTime) =>
                \/ GotHandled /\ Head(fbf.got) = h
                \/ TickHandled /\ fbf.now - fbf.fetching[h] >= Lifetime]_vars
    /\ [][(AddHandled /\ fbf.fetching[Head(fbf.add)] = NoTime) =>
            /\ fbf'.fetching[Head(fbf.add)] = fbf.now
            /\ fbf'.spawned[Head(fbf.add)] = fbf.spawned[Head(fbf.add)] + 1
            /\ fbf'.running[Head(fbf.add)] = fbf.running[Head(fbf.add)] + 1]_vars

(* The entry of a hash was evicted by a tick (its only fetch has not      *)
(* returned, so no Got removed it) and the next Add of the hash is waiting *)
(* in the channel                                                          *)
C17_Witness ==
    \E h \in FetchHashes :
        /\ fbf.spawned[h] = 1
        /\ fbf.running[h] = 1
        /\ fbf.got = <<>>
        /\ fbf.fetching[h] = NoTime
        /\ fbf.add = <<h>>
        /\ ~fbf.stopped

(* C18: while a hash is in the fetching map and younger than the lifetime  *)
(* no fetch is spawned for it and its request time stays: an Add of it is  *)
(* dropped. An Add of a hash that is absent or at least lifetime old       *)
(* records the current time and spawns exactly one fetch. Fetches are      *)
(* spawned by nothing else.                                                *)
C18_OneFetchPerLiveEntry ==
    /\ [][\A h \in FetchHashes :
            (fbf.fetching[h] # NoTime /\ fbf.now - fbf.fetching[h] < Lifetime) =>
                /\ fbf'.spawned[h] = fbf.spawned[h]
                /\ fbf'.fetching[h] \in {fbf.fetching[h], NoTime}
                /\ fbf'.fetching[h] = NoTime => GotHandled]_vars
    /\ [][AddHandled =>
            LET h == Head(fbf.add)
            IN  IF fbf.fetching[h] # NoTime /\ fbf.now - fbf.fetching[h] < Lifetime
                THEN fbf' = [fbf EXCEPT !.add = Tail(@)]
                ELSE fbf' = [fbf EXCEPT !.add = Tail(@),
                                        !.fetching[h] = fbf.now,
                                        !.spawned[h] = @ + 1,
                                        !.running[h] = @ + 1]]_vars
    /\ [][fbf'.spawned # fbf.spawned => AddHandled]_vars
    /\ [](\A h \in FetchHashes : fbf.running[h] <= fbf.spawned[h])

(* Two Adds of one hash were handled within the lifetime and one fetch was *)
(* spawned; a later Add of the hash, its entry old but not yet evicted,    *)
(* spawned the second                                                      *)
C18_Witness ==
    \E h \in FetchHashes :
        /\ fbf.requests = 3
        /\ fbf.add = <<>>
        /\ fbf.spawned[h] = 2
        /\ \A g \in FetchHashes \ {h} : fbf.spawned[g] = 0
        /\ fbf.running[h] = 2
        /\ fbf.fetching[h] = fbf.now
        /\ fbf.now % Lifetime # 0

(* C20: Round.AddVRFShare returns true exactly when it has added the       *)
(* share: it returns false and adds nothing when a share of the party is   *)
(* stored and when the stored shares have reached the threshold.           *)
C20_TrueOnlyWhenShareAdded ==
    [][ret'.op = "AddVRFShare" =>
        /\ ret'.ok <=>
              /\ rounds[1].shares[ret'.arg] = NoShare
              /\ Cardinality(getVRFShares(rounds[1])) < T
              /\ rounds'[1].shares[ret'.arg] # NoShare
        /\ ~ret'.ok => rounds'[1].shares = rounds[1].shares]_vars

(* The timeout number with the most votes, the higher number on a tie *)
Winner(votes) ==
    CHOOSE k \in DOMAIN votes :
        \A j \in DOMAIN votes :
            votes[j] < votes[k] \/ (votes[j] = votes[k] /\ j <= k)

(* max(current + 1, winner + 1); current + 1 without votes *)
CountAfterIncrement(r) ==
    IF DOMAIN r.timeoutVotes = {} THEN r.count + 1
    ELSE IF Winner(r.timeoutVotes) + 1 > r.count + 1
    THEN Winner(r.timeoutVotes) + 1 ELSE r.count + 1

(* C23: IncrementTimeoutCount sets the count to max(current + 1, w + 1),   *)
(* w the timeout number with the most votes (the higher number on a tie),  *)
(* and to current + 1 without votes; it clears the votes and the voters;   *)
(* the order in which the votes are visited makes no difference; the count *)
(* strictly increases.                                                     *)
C23_IncrementByMostVoted ==
    /\ [](\A r \in IncrementTimeoutCount(rounds[1]) :
            /\ r.count = CountAfterIncrement(rounds[1])
            /\ r.count > rounds[1].count
            /\ DOMAIN r.timeoutVotes = {}
            /\ r.votersVoted = {}
            /\ r = [rounds[1] EXCEPT !.count = r.count,
                                     !.timeoutVotes = r.timeoutVotes,
                                     !.votersVoted = {}])
    /\ [](Cardinality(IncrementTimeoutCount(rounds[1])) = 1)
    /\ [][ret'.op = "IncrementTimeoutCount" /\ rounds' # rounds =>
            /\ rounds'[1].count = CountAfterIncrement(rounds[1])
            /\ rounds'[1].count > rounds[1].count
            /\ DOMAIN rounds'[1].timeoutVotes = {}
            /\ rounds'[1].votersVoted = {}]_vars

(* The votes have raised the count past current + 1, to the highest       *)
(* timeout number voted for plus one                                       *)
C23_Witness ==
    /\ ret.op = "IncrementTimeoutCount"
    /\ rounds[1].count = MaxVoteNum + 1
    /\ rounds[1].votersVoted = {}

RECURSIVE SumOfVotes(_)
SumOfVotes(votes) ==
    IF DOMAIN votes = {} THEN 0
    ELSE LET k == CHOOSE k \in DOMAIN votes : TRUE
         IN  votes[k] + SumOfVotes([j \in DOMAIN votes \ {k} |-> votes[j]])

(* C30: a voter has at most one vote between two IncrementTimeoutCount     *)
(* calls: AddTimeoutVote of a recorded voter changes nothing, whatever the *)
(* timeout number, and the tallies sum up to the number of voters.         *)
C30_OneVotePerVoter ==
    /\ [](SumOfVotes(rounds[1].timeoutVotes) = Cardinality(rounds[1].votersVoted))
    /\ [](\A k \in DOMAIN rounds[1].timeoutVotes : rounds[1].timeoutVotes[k] >= 1)
    /\ [](\A id \in rounds[1].votersVoted : \A num \in 0..MaxVoteNum :
            AddTimeoutVote(rounds[1], num, id) = rounds[1])
    /\ [][ret'.op = "AddTimeoutVote" =>
            IF ret'.arg[2] \in rounds[1].votersVoted
            THEN rounds' = rounds /\ ~ret'.ok
            ELSE /\ rounds'[1].votersVoted = rounds[1].votersVoted \cup {ret'.arg[2]}
                 /\ SumOfVotes(rounds'[1].timeoutVotes)
                      = SumOfVotes(rounds[1].timeoutVotes) + 1]_vars

(* Every miner has voted and the last call was a second vote of a voter,   *)
(* for a timeout number without votes                                      *)
C30_Witness ==
    /\ ret.op = "AddTimeoutVote"
    /\ ~ret.ok
    /\ ret.arg[1] \notin DOMAIN rounds[1].timeoutVotes
    /\ rounds[1].votersVoted = Miners

(* C21: once a seed is stored in a round by Round.SetRandomSeed, no later   *)
(* or concurrent SetRandomSeed call changes the seed of the round.          *)
C21_StoredSeedNeverChanges ==
    [][rounds[1].RandomSeed # 0 =>
          rounds'[1].RandomSeed = rounds[1].RandomSeed]_vars

(* the SetFinalizing call of p returns in this step *)
SetFinalizingReturns(p) ==
    /\ rcalls.proc[p].op = "SetFinalizing"
    /\ rcalls'.proc[p] = NoCall

C24_StateNeverDecreases ==
    [][\A n \in DOMAIN rounds : rounds'[n].state >= rounds[n].state]_vars

(* C26: Chain.AddBlock changes nothing when the round of the block is not   *)
(* above the round of the latest finalized block or a block of its hash is  *)
(* cached, the cached object staying; otherwise it inserts the block and    *)
(* links it to the cached block of its parent hash when its parent pointer  *)
(* is unset and that block is cached, and leaves the pointer as it is else. *)
C26_AddBlockEffect ==
    [][ret'.op = "AddBlock" =>
          LET b == ret'.arg
              h == blk[b].Hash
          IN  IF \/ blk[b].Round <= blk[LatestFinalizedBlock].Round
                 \/ h \in DOMAIN Blocks
              THEN Blocks' = Blocks /\ blk' = blk
              ELSE /\ DOMAIN Blocks' = DOMAIN Blocks \cup {h}
                   /\ Blocks'[h] = b
                   /\ \A g \in DOMAIN Blocks : Blocks'[g] = Blocks[g]
                   /\ \A o \in DOMAIN blk \ {b} : blk'[o] = blk[o]
                   /\ blk'[b] = [blk[b] EXCEPT !.PrevBlock =
                                    IF @ = Nil /\ blk[b].PrevHash \in DOMAIN Blocks
                                    THEN Blocks[blk[b].PrevHash] ELSE @]]_vars

(* The second object of hash 1 has been added while the first is cached    *)
(* and stays; the cached block of round 2 got its parent from the cache.   *)
C26_Witness ==
    /\ ret.op = "AddBlock"
    /\ ret.arg = NumHashes + 1
    /\ 1 \in DOMAIN Blocks
    /\ Blocks[1] = 1
    /\ NumHashes \in DOMAIN Blocks
    /\ blk[NumHashes].PrevHash = 1
    /\ blk[NumHashes].PrevBlock = 1

(* C28: in every reachable state the notarized blocks of a round are in    *)
(* the order of their chain weight, heaviest first, also after             *)
(* GetBestRankedNotarizedBlock, and the block that                         *)
(* GetHeaviestNotarizedBlock and GetBlockToExtend return is one of         *)
(* maximal chain weight.                                                   *)
C28_NotarizedByWeightDescending ==
    LET nb == rounds[1].notarizedBlocks
    IN  /\ \A i \in DOMAIN nb : \A j \in DOMAIN nb :
              i < j => blk[nb[i]].ChainWeight >= blk[nb[j]].ChainWeight
        /\ (ret.op \in {"GetHeaviestNotarizedBlock", "GetBlockToExtend"}
            /\ ret.arg # Nil)
              => \A i \in DOMAIN nb :
                    blk[ret.arg].ChainWeight >= blk[nb[i]].ChainWeight

(* C29: on a round that is not finalized, whenever notarized_blocks is not *)
(* empty the round's best block is one of the notarized blocks (a block of *)
(* its hash is in the list) and no notarized block has a lower rank.       *)
C29_BestBlockIsLowestRankNotarized ==
    \A n \in DOMAIN rounds :
        LET nb == rounds[n].notarizedBlocks
        IN  (rounds[n].state # RoundStateFinalized /\ nb # <<>>) =>
                /\ rounds[n].Block # Nil
                /\ \E i \in DOMAIN nb : blk[nb[i]].Hash = blk[rounds[n].Block].Hash
                /\ \A i \in DOMAIN nb :
                      blk[rounds[n].Block].RoundRank <= blk[nb[i]].RoundRank

(* the sharders that have returned a block of hash h *)
SharderCount(h) ==
    Cardinality({i \in DOMAIN log : log[i].op = "response" /\ log[i].arg = h})

(* C27: GetFinalizedBlockFromSharders returns an error when no sharder has *)
(* returned a block, and otherwise a returned block of the highest round   *)
(* that, among the blocks of that round, the most sharders have returned.  *)
C27_HighestRoundThenMostSharders ==
    ret.op = "GetFinalizedBlockFromSharders" =>
        IF log = <<>> THEN ~ret.ok
        ELSE /\ ret.ok
             /\ \E i \in DOMAIN log : log[i].arg = blk[ret.arg].Hash
             /\ \A i \in DOMAIN log :
                   \/ log[i].round < blk[ret.arg].Round
                   \/ /\ log[i].round = blk[ret.arg].Round
                      /\ SharderCount(log[i].arg) <= SharderCount(blk[ret.arg].Hash)

(* the entries of the log for successful verifications by the collector *)
Verified == {i \in DOMAIN log : log[i].op = "verify" /\ log[i].arg.ok}

(* C25: of two different blocks that a proposer sends for one round (of    *)
(* one rank) the collector verifies at most one successfully and sends its *)
(* verification ticket for at most one: the ranks of the blocks it         *)
(* verifies successfully are strictly decreasing.                          *)
C25_OneTicketPerEquivocation ==
    \A i \in Verified : \A j \in Verified :
        (i < j /\ blk[log[i].arg.b].Hash # blk[log[j].arg.b].Hash)
            => blk[log[j].arg.b].RoundRank < blk[log[i].arg.b].RoundRank

(* the entries of the log for verifications the collector has attempted *)
VerifyEntries(l) == {i \in DOMAIN l : l[i].op = "verify"}

(* C40: once the verification of a round is cancelled its collector        *)
(* verifies no further block and sends no further verification ticket.     *)
C40_NoVerificationAfterCancel ==
    [][vctx[1] = "cancelled" =>
          /\ VerifyEntries(log') = VerifyEntries(log)
          /\ {i \in DOMAIN log' : log'[i].op = "SendVerificationTicket"}
                = {i \in DOMAIN log : log[i].op = "SendVerificationTicket"}]_vars

(* C36: the collector of a round ends only through cancellation: when it   *)
(* ends its context is done, a verification that fails leaves it running,  *)
(* and once the context is cancelled the collector ends.                   *)
C36_CollectorEndsOnlyByCancel ==
    /\ [][(coll'.pc = "done" /\ coll.pc # "done") => vctx[1] = "cancelled"]_vars
    /\ [][\A i \in VerifyEntries(log') \ VerifyEntries(log) :
              ~log'[i].arg.ok => coll'.pc \in {"select", "loop"}]_vars
    /\ (vctx[1] = "cancelled") ~> (coll.pc = "done")

(* A verification has failed, a later block taken from the channel has     *)
(* been verified, and the collector has ended after the cancellation.      *)
C36_Witness ==
    /\ coll.pc = "done"
    /\ vctx[1] = "cancelled"
    /\ \E i \in VerifyEntries(log) : \E j \in VerifyEntries(log) :
          /\ i < j
          /\ ~log[i].arg.ok
          /\ log[j].arg.ok
          /\ log[j].arg.from = "chan"

(* the call of a party has returned false in its first step *)
RejectedAtOnce == bproc' = bproc

(* C34: the miner's AddVRFShare returns false and leaves the share set and *)
(* the state of the round unchanged when the previous round is missing or  *)
(* has seed 0, when the share is no signature on the round's message, or   *)
(* when the share's timeout count is not the round's; every stored share   *)
(* passed the signature check and carries the round's timeout count.       *)
C34_RejectedShareChangesNothing ==
    /\ [][RejectedAtOnce =>
              /\ rounds'[1].shares = rounds[1].shares
              /\ rounds'[1].state = rounds[1].state]_vars
    /\ [][\A p \in Miners :
              (bproc[p].pc = "idle" /\ bproc'[p].pc # "idle") =>
                  /\ 0 \in DOMAIN rounds
                  /\ rounds[0].RandomSeed # 0
                  /\ bproc'[p].share.share = ValidShare
                  /\ bproc'[p].share.tc = rounds[1].count]_vars
    /\ [](\A p \in Miners :
              rounds[1].shares[p] # NoShare =>
                  /\ 0 \in DOMAIN rounds
                  /\ rounds[0].RandomSeed # 0
                  /\ rounds[1].shares[p].share = ValidShare
                  /\ rounds[1].shares[p].tc = rounds[1].count)

(* The share of one party is stored, and the call of another party has     *)
(* returned at once, below the threshold, without storing its share.       *)
C34_Witness ==
    \E p \in Miners : \E q \in Miners :
        /\ rounds[1].shares[p] # NoShare
        /\ rounds[1].shares[q] = NoShare
        /\ q \in rounds[1].votersVoted
        /\ bproc[q].pc = "idle"
        /\ Cardinality(getVRFShares(rounds[1])) < T

(* C39: when the miner's AddVRFShare rejects a share because the message   *)
(* cannot be built or the share is no signature on it, the timeout votes   *)
(* and the voters of the round are as before the call.                     *)
C39_RejectedShareCastsNoVote ==
    [][RejectedAtOnce =>
          /\ rounds'[1].timeoutVotes = rounds[1].timeoutVotes
          /\ rounds'[1].votersVoted = rounds[1].votersVoted]_vars

----------------------------------------------------------------------------
(* The rank permutation of a round: the seed setters, ComputeMinerRanks,   *)
(* Restart and the reads of GetMinerRank, each call atomic.                *)

NoRank == 0 - 1

(* Round.GetMinerRank: miner m has SetIndex m - 1 *)
GetMinerRank(r, m) ==
    IF m - 1 >= Len(r.minerPerm) THEN NoRank ELSE r.minerPerm[m]

ranksFrame == UNCHANGED <<blk, log, chainVars>>

CallSetRandomSeed ==
    \E seed \in 1..NumStateSeeds :
        /\ rounds' = [rounds EXCEPT ![1] = SetRandomSeed(@, seed)]
        /\ ret' = [op |-> "SetRandomSeed", arg |-> seed, ok |-> ~rounds[1].hasRandomSeed]
        /\ ranksFrame

CallSetRandomSeedForNotarizedBlock ==
    \E seed \in 1..NumStateSeeds :
        /\ rounds' = [rounds EXCEPT ![1] = SetRandomSeedForNotarizedBlock(@, seed)]
        /\ ret' = [op |-> "SetRandomSeedForNotarizedBlock", arg |-> seed, ok |-> TRUE]
        /\ ranksFrame

(* Round.ComputeMinerRanks, first step: seed := r.GetRandomSeed(), read   *)
(* before r.mutex is taken                                                 *)
ComputeMinerRanksLoadSeed ==
    \E p \in Callers :
        /\ rcalls.proc[p].pc = "idle"
        /\ rcalls' = [rcalls EXCEPT !.proc[p] =
                         [op |-> "ComputeMinerRanks", n |-> 1, pc |-> "perm",
                          arg |-> rounds[1].RandomSeed]]
        /\ UNCHANGED <<rounds, ret, blk, log, vctx, LatestFinalizedBlock,
                       CurrentRound, beaconVars, Blocks, Self, chan, coll,
                       gen, TransactionCount, fbf>>

(* Round.ComputeMinerRanks, second step: under r.mutex the permutation of  *)
(* the seed read before is stored                                          *)
ComputeMinerRanksStorePerm ==
    \E p \in Callers :
        /\ rcalls.proc[p].pc = "perm"
        /\ rounds' = [rounds EXCEPT ![1].minerPerm =
                         Perm(rcalls.proc[p].arg, NumMiners)]
        /\ ret' = [op |-> "ComputeMinerRanks", arg |-> rcalls.proc[p].arg, ok |-> TRUE]
        /\ rcalls' = [rcalls EXCEPT !.proc[p] = NoCall]
        /\ UNCHANGED <<blk, log, vctx, LatestFinalizedBlock,
                       CurrentRound, beaconVars, Blocks, Self, chan, coll,
                       gen, TransactionCount, fbf>>

CallGetMinerRank ==
    \E m \in Miners :
        /\ rounds[1].minerPerm # <<>>
        /\ ret' = [op |-> "GetMinerRank", arg |-> m, ok |-> TRUE,
                   seed |-> rounds[1].RandomSeed,
                   rank |-> GetMinerRank(rounds[1], m)]
        /\ UNCHANGED rounds
        /\ ranksFrame

NextRanks ==
    \/ CallSetRandomSeed
    \/ CallSetRandomSeedForNotarizedBlock
    \/ ComputeMinerRanksLoadSeed
    \/ ComputeMinerRanksStorePerm
    \/ CallGetMinerRank
    \/ CallRestart

SpecRanks == InitRound /\ [][NextRanks]_vars

(* C37: whenever the rank permutation of a round is set it is the          *)
(* permutation of its current seed with one entry per committee member,    *)
(* and a rank GetMinerRank serves is the miner's rank under the seed the   *)
(* round has at the time of the read.                                      *)
C37_PermOfCurrentSeed ==
    /\ rounds[1].minerPerm # <<>> =>
          /\ Len(rounds[1].minerPerm) = NumMiners
          /\ \A i \in Miners :
                rounds[1].minerPerm[i] = (i - 1 + rounds[1].RandomSeed) % NumMiners
    /\ ret.op = "GetMinerRank" =>
          ret.rank = (ret.arg - 1 + ret.seed) % NumMiners

----------------------------------------------------------------------------
(* ProcessVerifiedTicket called by several goroutines: the collector of    *)
(* the round with the node's own ticket (protocol_round.go line 140, ctx   *)
(* the round's verification context) and the handlers of the tickets of    *)
(* the peers. The function takes no lock of its own, so the calls          *)
(* interleave at its calls into the block, the round and the round map.    *)

GetVerificationContext == "verification"

(* common.GetRootContext() *)
GetRootContext == "root"

Contexts == {"handler", "verification"}

(* ctx.Err() # nil for the context of a call on round n *)
ctxCancelled(v, n, ctx) == ctx = "verification" /\ v[n] = "cancelled"

InitTickets ==
    /\ LET bs == [o \in Objs \cup {GenesisObj} |->
                    IF o = GenesisObj THEN GenesisBlock
                    ELSE [NewBlock(HashOf(o)) EXCEPT !.Round = RoundOf(HashOf(o))]]
           g == GenerateGenesisBlock(bs, GenesisObj)
           r1 == [Provider(1) EXCEPT !.RandomSeed = 1, !.hasRandomSeed = TRUE,
                                     !.state = RoundVRFComplete]
       IN  /\ rounds = (0 :> g.gr @@ 1 :> r1)
           /\ blk = g.bs
    /\ vctx = (0 :> "none" @@ 1 :> "active")
    /\ ret = NoRet
    /\ log = <<>>
    /\ LatestFinalizedBlock = GenesisObj
    /\ CurrentRound = 1
    /\ IsDkgEnabled = TRUE
    /\ bproc = [p \in Miners |-> IdleCall]
    /\ Blocks = << >>
    /\ Self = NumMiners
    /\ gen = NoGenerator
    /\ fbf = NoFetcher
    /\ rcalls = NoCalls
    /\ TransactionCount = 0
    /\ chan = <<>>
    /\ coll = NoCollector

ticketsFrame == UNCHANGED <<ret, beaconVars, Blocks, Self, fbf, genVars, chan, coll>>

worldFrame == UNCHANGED <<rounds, blk, vctx, log, LatestFinalizedBlock, CurrentRound>>

InFlight == {p \in Callers : rcalls.proc[p].pc # "idle"}

(* line 205: notarized := mc.IsBlockNotarized(ctx, b) *)
TicketLoadNotarized ==
    \E p \in Callers : \E b \in Objs : \E signer \in Miners : \E ctx \in Contexts :
        /\ rcalls.proc[p].pc = "idle"
        /\ blk[b].Round \in DOMAIN rounds
        /\ Cardinality(TicketsStored) + Cardinality(InFlight) < MaxTickets
        /\ ctx = "verification" =>
              /\ signer = Self
              /\ vctx[blk[b].Round] # "none"
              /\ \A q \in InFlight : rcalls.proc[q].ctx # "verification"
        /\ rcalls' = [rcalls EXCEPT !.proc[p] =
                         [op |-> "ProcessVerifiedTicket", n |-> blk[b].Round,
                          pc |-> "add", arg |-> b, signer |-> signer, ctx |-> ctx,
                          notarized |-> IsBlockNotarized(blk, b)]]
        /\ worldFrame
        /\ ticketsFrame

(* lines 209-214: the ticket is added; a ticket already held or a block    *)
(* that was notarized before ends the call                                 *)
TicketAdd ==
    \E p \in Callers :
        LET c == rcalls.proc[p]
            av == AddVerificationTicket(blk, c.arg, c.signer)
        IN  /\ c.pc = "add"
            /\ blk' = av.bs
            /\ rcalls' = [rcalls EXCEPT !.proc[p] =
                             IF ~av.ok \/ c.notarized THEN NoCall
                             ELSE [c EXCEPT !.pc = "check"]]
            /\ UNCHANGED <<rounds, vctx, log, LatestFinalizedBlock, CurrentRound>>
            /\ ticketsFrame

(* line 215: if mc.IsBlockNotarized(ctx, b) *)
TicketCheckNotarized ==
    \E p \in Callers :
        LET c == rcalls.proc[p]
        IN  /\ c.pc = "check"
            /\ rcalls' = [rcalls EXCEPT !.proc[p] =
                             IF IsBlockNotarized(blk, c.arg)
                             THEN [c EXCEPT !.pc = "notarize"] ELSE NoCall]
            /\ worldFrame
            /\ ticketsFrame

(* lines 216-227: r.Block = b, CancelRoundVerification, AddNotarizedBlock  *)
(* and SendNotarization                                                    *)
TicketNotarize ==
    \E p \in Callers :
        LET c == rcalls.proc[p]
            w1 == Logged(CancelRoundVerification(
                            [World EXCEPT !.rounds[c.n].Block = c.arg], c.n),
                         "CancelRoundVerification", c.n, c.arg)
        IN  /\ c.pc = "notarize"
            /\ \E o \in AddNotarizedBlockOutcomes(w1.rounds[c.n], w1.blk, c.arg) :
                  SetWorld(Logged([w1 EXCEPT !.rounds[c.n] = o.r, !.blk = o.bs],
                                  "SendNotarization", c.n, c.arg))
            /\ rcalls' = [rcalls EXCEPT !.proc[p].pc = "next"]
            /\ ticketsFrame

(* line 228: if mc.GetRound(r.Number+1) == nil *)
TicketGetNextRound ==
    \E p \in Callers :
        LET c == rcalls.proc[p]
        IN  /\ c.pc = "next"
            /\ rcalls' = [rcalls EXCEPT !.proc[p].pc =
                             IF (c.n + 1) \in DOMAIN rounds THEN "prev" ELSE "create"]
            /\ worldFrame
            /\ ticketsFrame

(* lines 229-236: the next round is created with its provisional seed,     *)
(* started with the root context and announced                             *)
TicketCreateRound ==
    \E p \in Callers :
        LET c == rcalls.proc[p]
            nr == [Provider(c.n + 1) EXCEPT
                      !.RandomSeed = Rand63(rounds[c.n].RandomSeed)]
            w1 == Logged(IF (c.n + 1) \in DOMAIN rounds THEN World
                         ELSE CreateRound(World, nr),
                         "CreateRound", c.n + 1, c.arg)
        IN  /\ c.pc = "create"
            /\ SetWorld(Logged(Logged(w1, "startNewRound", c.n + 1, GetRootContext),
                               "RoundStart", c.n + 1, nr.RandomSeed))
            /\ rcalls' = [rcalls EXCEPT !.proc[p].pc = "prev"]
            /\ ticketsFrame

(* lines 238-242: the previous round is finalized with the context of the  *)
(* call                                                                    *)
TicketFinalizePrevious ==
    \E p \in Callers :
        LET c == rcalls.proc[p]
        IN  /\ c.pc = "prev"
            /\ IF (c.n - 1) \in DOMAIN rounds /\ rounds[c.n - 1].Block # Nil
               THEN SetWorld(FinalizeRound(
                        Logged(World, "callFinalizeRound", c.n - 1,
                               [ctx |-> c.ctx,
                                cancelled |-> ctxCancelled(vctx, c.n, c.ctx)]),
                        c.n - 1))
               ELSE SetWorld(World)
            /\ rcalls' = [rcalls EXCEPT !.proc[p] = NoCall]
            /\ ticketsFrame

NextTickets ==
    \/ TicketLoadNotarized
    \/ TicketAdd
    \/ TicketCheckNotarized
    \/ TicketNotarize
    \/ TicketGetNextRound
    \/ TicketCreateRound
    \/ TicketFinalizePrevious

SpecTickets == InitTickets /\ [][NextTickets]_vars

LogCount(op, n, arg) ==
    Cardinality({i \in DOMAIN log :
                    log[i].op = op /\ log[i].round = n /\ log[i].arg = arg})

(* C31: for a block the notarization effects of ProcessVerifiedTicket, the *)
(* cancellation of the round's verification and the sending of the         *)
(* Notarization, happen at most once, also when its tickets are processed  *)
(* by concurrent calls.                                                    *)
C31_NotarizationEffectsOnce ==
    \A b \in Objs :
        /\ LogCount("CancelRoundVerification", blk[b].Round, b) <= 1
        /\ LogCount("SendNotarization", blk[b].Round, b) <= 1

RoundLogCount(op, n) ==
    Cardinality({i \in DOMAIN log : log[i].op = op /\ log[i].round = n})

(* C32: on one node a round is created, started and announced by           *)
(* RoundStart at most once, also when notarizations of the round before    *)
(* are processed concurrently.                                             *)
C32_NextRoundStartedOnce ==
    \A n \in DOMAIN rounds :
        /\ RoundLogCount("CreateRound", n) <= 1
        /\ RoundLogCount("startNewRound", n) <= 1
        /\ RoundLogCount("RoundStart", n) <= 1

FinalizeCalls == {i \in DOMAIN log : log[i].op = "callFinalizeRound"}

StartCalls == {i \in DOMAIN log : log[i].op = "startNewRound"}

(* C33 as stated: neither the start of the next round nor the finalization *)
(* of the previous round runs with a context that the cancellation of the  *)
(* round's verification has cancelled.                                     *)
C33_FollowUpNeverCancelled ==
    /\ \A i \in StartCalls : log[i].arg = "root"
    /\ \A i \in FinalizeCalls : ~log[i].arg.cancelled

(* C33: the next round is always started with the root context, also by a  *)
(* call whose own context was cancelled; the finalization of the previous  *)
(* round gets the context of the call, which is cancelled exactly when the *)
(* call came from the round's collector.                                   *)
C33_OnlyStartUsesRootContext ==
    /\ \A i \in StartCalls : log[i].arg = "root"
    /\ \A i \in FinalizeCalls :
          log[i].arg.cancelled <=> log[i].arg.ctx = "verification"

C33_Witness ==
    \E i \in StartCalls : \E j \in FinalizeCalls :
        /\ i < j
        /\ log[i].arg = "root"
        /\ log[j].arg.ctx = "verification"
        /\ log[j].arg.cancelled
        /\ vctx[1] = "cancelled"

----------------------------------------------------------------------------
(* Chain.asyncFetchFinalizedBlock, one goroutine per requested hash: the   *)
(* request to the sharders, the round of the returned block, the checks    *)
(* and the storing of the block. Hashes 1 and 2 are blocks of round 1, the *)
(* other hashes blocks of round 2; whether a block carries a quorum of     *)
(* tickets and whether it validates are inputs. The calls are taken one   *)
(* at a time.                                                              *)

MaxFetches == 2     \* calls of asyncFetchFinalizedBlock

VerifyAnyNotarization(bs, fb) == TRUE

(* Chain.VerifyNotarization: a quorum of tickets *)
VerifyNotarization(bs, fb) == Cardinality(bs[fb].tickets) >= T

(* Block.Validate *)
Validate(bs, fb) == bs[fb].verifies

QuorumOfTickets == 1..T

InitFetch ==
    /\ \E quorum \in [Hashes -> BOOLEAN] : \E valid \in [Hashes -> BOOLEAN] :
        LET bs == [o \in Objs \cup {GenesisObj} |->
                     IF o = GenesisObj THEN GenesisBlock
                     ELSE [NewBlock(HashOf(o)) EXCEPT
                              !.Round = RoundOf(HashOf(o)),
                              !.verifies = valid[HashOf(o)],
                              !.tickets = IF quorum[HashOf(o)]
                                          THEN QuorumOfTickets ELSE {}]]
            g == GenerateGenesisBlock(bs, GenesisObj)
        IN  /\ rounds = (0 :> g.gr @@ 1 :> Provider(1))
            /\ blk = g.bs
    /\ Blocks = (GenesisHash :> GenesisObj)
    /\ vctx = (0 :> "none" @@ 1 :> "none")
    /\ LatestFinalizedBlock = GenesisObj
    /\ CurrentRound = 1
    /\ ret = NoRet
    /\ log = <<>>
    /\ IsDkgEnabled = TRUE
    /\ bproc = [p \in Miners |-> IdleCall]
    /\ Self = NumMiners
    /\ gen = NoGenerator
    /\ fbf = NoFetcher
    /\ rcalls = NoCalls
    /\ TransactionCount = 0
    /\ chan = <<>>
    /\ coll = NoCollector

fetchFrame == UNCHANGED <<ret, beaconVars, Self, fbf, genVars, chan, coll>>

FetchesBegun == Cardinality({i \in DOMAIN log : log[i].op = "fetch"})

(* lines 121-129: a block found in the cache is reported at once *)
FetchGetBlock ==
    \E p \in Callers : \E hash \in Hashes :
        /\ InFlight = {}
        /\ FetchesBegun < MaxFetches
        /\ IF hash \in DOMAIN Blocks
           THEN /\ SetWorld(Logged(Logged(World, "fetch", 0, hash),
                                   "got", 0, [hash |-> hash, fb |-> Nil]))
                /\ UNCHANGED rcalls
           ELSE /\ SetWorld(Logged(World, "fetch", 0, hash))
                /\ rcalls' = [rcalls EXCEPT !.proc[p] =
                                 [op |-> "asyncFetchFinalizedBlock", n |-> 0,
                                  pc |-> "request", arg |-> hash, fb |-> Nil,
                                  responses |-> 0, finalizedBlocks |-> <<>>]]
        /\ fetchFrame

(* line 230: a sharder answers the request, which names no hash, with a    *)
(* block of its own                                                        *)
FetchSharderResponds ==
    \E p \in Callers : \E fb \in Objs :
        LET c == rcalls.proc[p]
        IN  /\ c.pc = "request"
            /\ c.responses < NumSharders
            /\ rcalls' = [rcalls EXCEPT !.proc[p] =
                             [c EXCEPT !.responses = @ + 1,
                                       !.finalizedBlocks = handler(@, blk, fb)]]
            /\ worldFrame
            /\ UNCHANGED Blocks
            /\ fetchFrame

(* lines 134-138 and 232-243: the blocks are sorted and the first is the   *)
(* block fetched; without a response the call ends                         *)
FetchFromSharders ==
    \E p \in Callers :
        LET c == rcalls.proc[p]
            o == GetFinalizedBlockFromSharders(c.finalizedBlocks, blk)
        IN  /\ c.pc = "request"
            /\ rcalls' = [rcalls EXCEPT !.proc[p] =
                             IF o.err THEN NoCall
                             ELSE [c EXCEPT !.pc = "round", !.fb = o.fb,
                                            !.finalizedBlocks = o.sorted]]
            /\ worldFrame
            /\ UNCHANGED Blocks
            /\ fetchFrame

(* lines 140-149: the round of the block is created and added if the chain *)
(* has none                                                                *)
FetchGetRound ==
    \E p \in Callers :
        LET c == rcalls.proc[p]
            n == blk[c.fb].Round
        IN  /\ c.pc = "round"
            /\ IF n \in DOMAIN rounds
               THEN SetWorld(World)
               ELSE SetWorld(Logged(CreateRound(World, Provider(n)),
                                    "AddRound", n, c.fb))
            /\ rcalls' = [rcalls EXCEPT !.proc[p].pc = "verify"]
            /\ fetchFrame

(* lines 151-183: the checks, then AddBlock, AddNotarizedBlockToRound,     *)
(* AddNotarizedBlock, the handler of fetched blocks and got <- hash        *)
FetchVerifyAndStore ==
    \E p \in Callers :
        LET c == rcalls.proc[p]
            fb == c.fb
            n == blk[fb].Round
            w1 == AddBlock(World, fb)
            b == IF blk[fb].Hash \in DOMAIN w1.Blocks
                 THEN w1.Blocks[blk[fb].Hash] ELSE fb
        IN  /\ c.pc = "verify"
            /\ IF ~VerifyNotarization(blk, fb) \/ ~Validate(blk, fb)
               THEN SetWorld(World)
               ELSE \E o \in AddNotarizedBlockOutcomes(w1.rounds[n], w1.blk, b) :
                       LET w2 == [w1 EXCEPT !.rounds[n] = o.r, !.blk = o.bs]
                           w3 == IF o.b = fb
                                 THEN Logged(w2, "NotarizedBlockFetched", n, fb)
                                 ELSE w2
                       IN  SetWorld(Logged(w3, "got", 0,
                                           [hash |-> c.arg, fb |-> fb]))
            /\ rcalls' = [rcalls EXCEPT !.proc[p] = NoCall]
            /\ fetchFrame

NextFetch ==
    \/ FetchGetBlock
    \/ FetchSharderResponds
    \/ FetchFromSharders
    \/ FetchGetRound
    \/ FetchVerifyAndStore

SpecFetch == InitFetch /\ [][NextFetch]_vars

PassesChecks(b) == Cardinality(blk[b].tickets) >= T /\ blk[b].verifies

FetchFailsAt(p) ==
    /\ rcalls.proc[p].pc = "verify"
    /\ rcalls'.proc[p].pc = "idle"
    /\ ~PassesChecks(rcalls.proc[p].fb)

(* C35 as stated: a fetch whose block fails the verification of its        *)
(* notarization or its validation changes no chain state, so no round is   *)
(* ever created for such a block.                                          *)
C35_FailedFetchCreatesNoRound ==
    \A i \in DOMAIN log : log[i].op = "AddRound" => PassesChecks(log[i].arg)

(* C35: the failing checks end the call without a change of the rounds,    *)
(* the blocks, the cache or the log (no handler call, no got); only blocks *)
(* that pass both checks are in the cache, in a round's notarized set or   *)
(* handed to the handler; a round created for the block before the checks  *)
(* stays, empty of notarized blocks that fail them.                        *)
C35_FailedFetchStoresNothing ==
    /\ [][\A p \in Callers : FetchFailsAt(p) =>
              /\ rounds' = rounds
              /\ blk' = blk
              /\ Blocks' = Blocks
              /\ log' = log]_vars
    /\ [](\A h \in DOMAIN Blocks : Blocks[h] # GenesisObj => PassesChecks(Blocks[h]))
    /\ [](\A n \in DOMAIN rounds \ {0} :
            \A i \in DOMAIN rounds[n].notarizedBlocks :
                PassesChecks(rounds[n].notarizedBlocks[i]))
    /\ [](\A i \in DOMAIN log :
            /\ log[i].op = "NotarizedBlockFetched" => PassesChecks(log[i].arg)
            /\ (log[i].op = "got" /\ log[i].arg.fb # Nil) => PassesChecks(log[i].arg.fb))

C35_Witness ==
    /\ \E i \in DOMAIN log :
          /\ log[i].op = "AddRound"
          /\ ~PassesChecks(log[i].arg)
          /\ rounds[log[i].round].notarizedBlocks = <<>>
    /\ \E i \in DOMAIN log : log[i].op = "NotarizedBlockFetched"
    /\ InFlight = {}

(* C38: a block stored for a requested hash, with got signalled for the    *)
(* hash, has the requested hash.                                           *)
C38_StoredBlockHasRequestedHash ==
    \A i \in DOMAIN log :
        (log[i].op = "got" /\ log[i].arg.fb # Nil) =>
            blk[log[i].arg.fb].Hash = log[i].arg.hash

====
